---- MODULE Spec2Model ----
(***************************************************************************)
(* A model of bug-butler's core:                                           *)
(*   domain.SLARule.Matches / Violates      (rule matcher)                 *)
(*   domain.BucketGroup.AddToBucket / Sort  (bucket aggregator)            *)
(*   sla.NewEvaluator / Evaluator.Evaluate  (SLA evaluator)                *)
(*   stats.NewAnalyzer / Analyzer.Analyze   (trend analyzer)               *)
(*   stats.ExtractSprintIDs / ExtractAndFilterSprints /                    *)
(*   Analyzer.CalculateSprintStats          (sprint aggregator)            *)
(*   cli.runCheck                           (check command, exit code)     *)
(*   jira.Client.FetchBugs / FetchBugsByDateRange / FetchIssuesBySprints   *)
(*                                          (paginated fetch)              *)
(*                                                                         *)
(* Eight specifications share the module's variables; each one drives one  *)
(* part of the program and leaves the other parts' variables alone:        *)
(*   Spec        NewEvaluator(config rules), then Evaluate(bugs)           *)
(*   SpecBucket  AddToBucket and Sort called on one BucketGroup            *)
(*   SpecRule    Matches and Violates applied to one rule and one bug      *)
(*   SpecTrend   NewAnalyzer(goal, months), then Analyze(bugs)             *)
(*   SpecBacklog SpecTrend over issues with whole-second UTC timestamps    *)
(*   SpecSprint  one call of ExtractSprintIDs, ExtractAndFilterSprints or  *)
(*               CalculateSprintStats                                      *)
(*   SpecCheck   one run of the check command                              *)
(*   SpecFetch   one call of a fetch function, page by page                *)
(*                                                                         *)
(* In the evaluator's specifications time is measured in one unit:         *)
(* Bug.Updated, the clock and SLARule.MaxAgeDays are integers of that      *)
(* unit, so AgeDays, which the                                             *)
(* code computes as time.Since(Updated).Hours()/24, is clock - Updated.    *)
(* The clock is read once per Evaluate call (the call lasts microseconds). *)
(* A []*Bug holds pointers: a pointer is modelled by the position of the   *)
(* bug in the fetched list, so two list elements are two different issues. *)
(* A nil slice and an empty slice are both the empty sequence (the code    *)
(* only ever takes len() of a status list).                                *)
(***************************************************************************)
EXTENDS Integers, Sequences, FiniteSets, TLC

VARIABLES
    pc,         \* Spec: "new" -> "ready" (NewEvaluator) -> "evaluated" (Evaluate)
    cfgRules,   \* Spec: the []config.SLARule handed to NewEvaluator
    rules,      \* Spec: Evaluator.rules
    bugs,       \* Spec: the []*domain.Bug handed to Evaluate
    now,        \* Spec: the clock reading of the Evaluate call
    result,     \* Spec: the *BucketGroup Evaluate returned
    bg,         \* SpecBucket: BucketGroup.Buckets
    calls,      \* SpecBucket: the AddToBucket calls made so far, oldest first
    lastOp,     \* SpecBucket: the last method called on the group
    prevBg,     \* SpecBucket: BucketGroup.Buckets before the last method call
    mOp,        \* SpecRule: the last method called, "Matches" or "Violates"
    mRule,      \* SpecRule: the rule it was called on
    mBug,       \* SpecRule: the bug it was given
    mNow,       \* SpecRule: the clock reading of the call
    mOut,       \* SpecRule: the value it returned
    tOp,        \* SpecTrend: the last call made, "NewAnalyzer" or "Analyze"
    tGoal,      \* SpecTrend: Analyzer.reductionGoal, a percentage
    tMonths,    \* SpecTrend: Analyzer.monthsToAnalyze
    tBugs,      \* SpecTrend: the []*domain.Bug handed to Analyze
    tNow,       \* SpecTrend: the calendar month of the clock at the Analyze call
    tStats,     \* SpecTrend: the *TrendStats Analyze returned
    tErr,       \* SpecTrend: the error Analyze returned
    sOp,        \* SpecSprint: the function called
    sIssues,    \* SpecSprint: the []*domain.Bug it was given
    sPrefix,    \* SpecSprint: its argument sprintNameBeginsWith
    sPattern,   \* SpecSprint: its argument sprintNamePattern
    sOut,       \* SpecSprint: the slice it returned
    cPc,        \* SpecCheck: "start" -> "exited"
    cRun,       \* SpecCheck: what the run loaded, fetched and evaluated, its
                \*            error and its exit code
    cNow,       \* SpecCheck: the clock reading of the run's Evaluate call
    fPc,        \* SpecFetch: "idle" -> "running" -> "returned"
    fFunc,      \* SpecFetch: the fetch function called
    fToken,     \* SpecFetch: its variable nextPageToken
    fAll,       \* SpecFetch: its variable allBugs
    fSent,      \* SpecFetch: the nextPageToken of each request sent, in order
    fPages,     \* SpecFetch: the pages received, in order
    fResult,    \* SpecFetch: the slice it returned
    fErr        \* SpecFetch: whether it returned an error

evalVars == <<pc, cfgRules, rules, bugs, now, result>>
bucketVars == <<bg, calls, lastOp, prevBg>>
ruleVars == <<mOp, mRule, mBug, mNow, mOut>>
trendVars == <<tOp, tGoal, tMonths, tBugs, tNow, tStats, tErr>>
sprintVars == <<sOp, sIssues, sPrefix, sPattern, sOut>>
checkVars == <<cPc, cRun, cNow>>
fetchVars == <<fPc, fFunc, fToken, fAll, fSent, fPages, fResult, fErr>>
vars == <<evalVars, bucketVars, ruleVars, trendVars, sprintVars, checkVars, fetchVars>>

(***************************************************************************)
(* Bounds                                                                  *)
(***************************************************************************)
MaxRules == 2     \* longest rule list handed to NewEvaluator
MaxBugs == 2      \* longest bug list handed to Evaluate
MaxCalls == 3     \* most AddToBucket calls made on one group

(***************************************************************************)
(* Input domains                                                           *)
(***************************************************************************)
\* the slices over S of length at most n
SeqsUpTo(S, n) == UNION {[1..k -> S] : k \in 0..n}

BugPriorities == {"Critical", "Unknown"}
BugStatuses == {"Backlog", "Needs Triage"}
UpdatedTimes == {0, 1}
ClockTimes == {2}

\* domain.Bug, the fields the evaluation core reads
BugSet ==
    [Priority : BugPriorities, Status : BugStatuses, Updated : UpdatedTimes]

RulePriorities == {"", "Critical"}
RuleStatusLists == {<<>>, <<"Backlog">>}
MaxAges == {0, 1}
BucketNames == {"URGENT", "HIGH", "WATCH"}
Severities == {1, 2}

\* the severity a configuration gives each of its buckets
ConfiguredSeverity == [b \in {"URGENT", "HIGH"} |-> IF b = "URGENT" THEN 1 ELSE 2]

\* config.SLARule, as the configuration files write them: one severity per bucket
ConfigRuleSet ==
    {[Name |-> "rule", Priority |-> p, Status |-> s, MaxAgeDays |-> m,
      Bucket |-> b, Severity |-> ConfiguredSeverity[b]] :
        p \in RulePriorities, s \in RuleStatusLists, m \in MaxAges,
        b \in DOMAIN ConfiguredSeverity}

(***************************************************************************)
(* domain: Bug, SLARule                                                    *)
(***************************************************************************)
\* Bug.AgeDays: time.Since(b.Updated), in the model's time unit
AgeDays(bug, clock) == clock - bug.Updated

\* StatusMatch looking at the first configured status only
StatusMatchFirstOnly(statuses, i, bug) ==
    i <= Len(statuses) /\ statuses[i] = bug.Status

\* the status loop of SLARule.Matches: scans r.Status from index i, stops at
\* the first status equal to the bug's
RECURSIVE StatusMatch(_, _, _)
StatusMatch(statuses, i, bug) ==
    IF i > Len(statuses) THEN FALSE
    ELSE IF statuses[i] = bug.Status THEN TRUE
    ELSE StatusMatch(statuses, i + 1, bug)

\* Matches without its priority check
MatchesStatusOnly(r, bug) ==
    IF Len(r.Status) > 0 /\ ~StatusMatch(r.Status, 1, bug) THEN FALSE
    ELSE TRUE

\* SLARule.Matches
Matches(r, bug) ==
    IF r.Priority # "" /\ r.Priority # bug.Priority THEN FALSE
    ELSE IF Len(r.Status) > 0 /\ ~StatusMatch(r.Status, 1, bug) THEN FALSE
    ELSE TRUE

\* Violates with >= for >
ViolatesAtThreshold(r, bug, clock) ==
    Matches(r, bug) /\ AgeDays(bug, clock) >= r.MaxAgeDays

\* SLARule.Violates
Violates(r, bug, clock) ==
    Matches(r, bug) /\ AgeDays(bug, clock) > r.MaxAgeDays

(***************************************************************************)
(* domain: Bucket, BucketGroup                                             *)
(***************************************************************************)
\* index of the first bucket named bucketName at or after i, 0 if none
RECURSIVE FindBucket(_, _, _)
FindBucket(buckets, i, bucketName) ==
    IF i > Len(buckets) THEN 0
    ELSE IF buckets[i].Name = bucketName THEN i
    ELSE FindBucket(buckets, i + 1, bucketName)

\* AddToBucket overwriting the severity of the bucket it finds
AddToBucketSetsSeverity(buckets, bucketName, severity, bug) ==
    LET k == FindBucket(buckets, 1, bucketName) IN
    IF k # 0
    THEN [buckets EXCEPT ![k].Bugs = Append(@, bug), ![k].Severity = severity]
    ELSE Append(buckets, [Name |-> bucketName, Severity |-> severity, Bugs |-> <<bug>>])

\* AddToBucket putting the bug at the front of the bucket it finds
AddToBucketInFront(buckets, bucketName, severity, bug) ==
    LET k == FindBucket(buckets, 1, bucketName) IN
    IF k # 0
    THEN [buckets EXCEPT ![k].Bugs = <<bug>> \o @]
    ELSE Append(buckets, [Name |-> bucketName, Severity |-> severity, Bugs |-> <<bug>>])

\* BucketGroup.AddToBucket: buckets is bg.Buckets, bug a *Bug
AddToBucket(buckets, bucketName, severity, bug) ==
    LET k == FindBucket(buckets, 1, bucketName) IN
    IF k # 0
    THEN [buckets EXCEPT ![k].Bugs = Append(@, bug)]
    ELSE Append(buckets, [Name |-> bucketName, Severity |-> severity, Bugs |-> <<bug>>])

\* SortSwaps with >= for >
SortSwapsOnEqual(a, b) == a.Severity >= b.Severity

\* the comparison BucketGroup.Sort swaps on
SortSwaps(a, b) == a.Severity > b.Severity

SwapIfGreaterOverwriting(buckets, j) ==
    IF SortSwaps(buckets[j], buckets[j + 1])
    THEN [buckets EXCEPT ![j] = buckets[j + 1]]
    ELSE buckets

\* one inner-loop step of BucketGroup.Sort
SwapIfGreater(buckets, j) ==
    IF SortSwaps(buckets[j], buckets[j + 1])
    THEN [buckets EXCEPT ![j] = buckets[j + 1], ![j + 1] = buckets[j]]
    ELSE buckets

\* BucketGroup.Sort, inner loop: for j := j; j < n-i-1; j++  (0-based i, j)
RECURSIVE SortInner(_, _, _)
SortInner(buckets, i, j) ==
    IF j < Len(buckets) - i - 1
    THEN SortInner(SwapIfGreater(buckets, j + 1), i, j + 1)
    ELSE buckets

\* BucketGroup.Sort, outer loop: for i := i; i < n-1; i++
RECURSIVE SortOuter(_, _)
SortOuter(buckets, i) ==
    IF i < Len(buckets) - 1
    THEN SortOuter(SortInner(buckets, i, 0), i + 1)
    ELSE buckets

\* BucketGroup.Sort
Sort(buckets) == SortOuter(buckets, 0)

(***************************************************************************)
(* sla: Evaluator                                                          *)
(***************************************************************************)
\* the slice NewEvaluator fills: domainRules[i] from rules[i]
ToDomainRule(rule) ==
    LET statuses == IF Len(rule.Status) = 0 /\ rule.Priority # ""
                    THEN <<>>
                    ELSE rule.Status
    IN  [Name |-> rule.Name, Priority |-> rule.Priority, Status |-> statuses,
         MaxAgeDays |-> rule.MaxAgeDays, BucketName |-> rule.Bucket,
         Severity |-> rule.Severity]

\* DomainRules filling the slice from its far end
DomainRulesReversed(cfg) == [i \in 1..Len(cfg) |-> ToDomainRule(cfg[Len(cfg) + 1 - i])]

DomainRules(cfg) == [i \in 1..Len(cfg) |-> ToDomainRule(cfg[i])]

\* ScanRules without its break: the scan goes on after AddToBucket
RECURSIVE ScanRulesNoBreak(_, _, _, _, _, _)
ScanRulesNoBreak(rs, k, bugList, p, clock, buckets) ==
    IF k > Len(rs) THEN buckets
    ELSE IF Matches(rs[k], bugList[p]) /\ Violates(rs[k], bugList[p], clock)
         THEN ScanRulesNoBreak(rs, k + 1, bugList, p, clock,
                  AddToBucket(buckets, rs[k].BucketName, rs[k].Severity, p))
         ELSE ScanRulesNoBreak(rs, k + 1, bugList, p, clock, buckets)

\* ScanRules walking the rules from the last one to the first
RECURSIVE ScanRulesDown(_, _, _, _, _, _)
ScanRulesDown(rs, k, bugList, p, clock, buckets) ==
    IF k < 1 THEN buckets
    ELSE IF Matches(rs[k], bugList[p]) /\ Violates(rs[k], bugList[p], clock)
         THEN AddToBucket(buckets, rs[k].BucketName, rs[k].Severity, p)
         ELSE ScanRulesDown(rs, k - 1, bugList, p, clock, buckets)

ScanRulesFromLast(rs, k, bugList, p, clock, buckets) ==
    ScanRulesDown(rs, Len(rs), bugList, p, clock, buckets)

\* the rule loop of Evaluate for one bug (pointer p into bugList), from rule k:
\* the only break is after AddToBucket; a rule that matches without being
\* violated is logged and the loop goes on to the next rule
RECURSIVE ScanRules(_, _, _, _, _, _)
ScanRules(rs, k, bugList, p, clock, buckets) ==
    IF k > Len(rs) THEN buckets
    ELSE IF Matches(rs[k], bugList[p])
         THEN IF Violates(rs[k], bugList[p], clock)
              THEN AddToBucket(buckets, rs[k].BucketName, rs[k].Severity, p)
              ELSE ScanRules(rs, k + 1, bugList, p, clock, buckets)
         ELSE ScanRules(rs, k + 1, bugList, p, clock, buckets)

\* the bug loop of Evaluate, from bug p
RECURSIVE ProcessBugs(_, _, _, _, _)
ProcessBugs(rs, bugList, p, clock, buckets) ==
    IF p > Len(bugList) THEN buckets
    ELSE ProcessBugs(rs, bugList, p + 1, clock,
                     ScanRules(rs, 1, bugList, p, clock, buckets))

\* Evaluator.Evaluate: a fresh BucketGroup, every bug scanned, then Sort
Evaluate(rs, bugList, clock) ==
    Sort(ProcessBugs(rs, bugList, 1, clock, <<>>))

(***************************************************************************)
(* stats: the trend analyzer                                               *)
(*                                                                         *)
(* An instant is an integer count of ticks.  Every calendar month is       *)
(* TicksPerMonth ticks long, and month m starts at tick m * TicksPerMonth: *)
(*   tick 0   the 1st at 00:00:00.000, the month's first instant           *)
(*   tick 1   any instant in between                                       *)
(*   tick 2   the last day at 23:59:59.000                                 *)
(*   tick 3   the last day past 23:59:59.000, up to the month's final      *)
(*            instant (Jira timestamps carry milliseconds)                 *)
(* Month m - MonthsPerYear is the same calendar month one year earlier.    *)
(* A time.Time is an instant and a location; Bug.Created keeps the offset  *)
(* it was written with (jira.MapIssueToDomain copies the parsed value).    *)
(* Location "west" is any offset behind UTC: under it the first instant    *)
(* of a UTC month still reads as the previous month.  Year() and Month()   *)
(* read the calendar in the value's own location; After, Before and Equal  *)
(* compare instants.  A *time.Time is <<>> (nil) or <<instant>>.           *)
(* A float64 holding a quotient is kept exact, as [num, den]: rounding to  *)
(* the nearest representable value is not modelled.                        *)
(***************************************************************************)
TicksPerMonth == 4
MonthsPerYear == 12

MaxTrendBugs == 3     \* longest bug list handed to Analyze

InstantAt(m, tick) == m * TicksPerMonth + tick

\* the calendar month a UTC time.Time reads
UTCMonth(instant) == instant \div TicksPerMonth

\* the calendar month t.Year(), t.Month() read, in t's own location
LocalMonth(t) ==
    IF t.zone = "west" /\ t.instant % TicksPerMonth = 0
    THEN UTCMonth(t.instant) - 1
    ELSE UTCMonth(t.instant)

\* time.Date(year, month, 1, 0, 0, 0, 0, time.UTC)
MonthStart(m) == InstantAt(m, 0)

\* time.Date(month.Year(), month.Month()+1, 0, 23, 59, 59, 0, time.UTC):
\* day 0 of the next month is the last day of this one
MonthEnd(month) == InstantAt(UTCMonth(month) + 1, 0) - 2

TrendCreatedTimes ==
    {[instant |-> InstantAt(1, 1), zone |-> "UTC"],
     [instant |-> InstantAt(13, 1), zone |-> "UTC"],
     [instant |-> InstantAt(13, 3), zone |-> "UTC"],
     [instant |-> InstantAt(14, 0), zone |-> "west"]}

TrendResolutions ==
    {[Resolution |-> "", ResolutionDate |-> <<>>],
     [Resolution |-> "Done", ResolutionDate |-> <<InstantAt(13, 2)>>],
     [Resolution |-> "Done", ResolutionDate |-> <<InstantAt(13, 3)>>]}

TrendPriorities == {"High", "Low"}

TrendBugSet ==
    {[Priority |-> pr, Created |-> c, Resolution |-> r.Resolution,
      ResolutionDate |-> r.ResolutionDate] :
        pr \in TrendPriorities, c \in TrendCreatedTimes, r \in TrendResolutions}

ReductionGoals == {20, 50, 150}
MonthsToAnalyze == {24}
ClockMonths == {13}

\* bugs of three consecutive months, all written in UTC, for SpecBacklog
BacklogCreatedTimes ==
    {[instant |-> InstantAt(12, 1), zone |-> "UTC"],
     [instant |-> InstantAt(13, 0), zone |-> "UTC"],
     [instant |-> InstantAt(13, 2), zone |-> "UTC"],
     [instant |-> InstantAt(14, 1), zone |-> "UTC"]}

BacklogResolutions ==
    {[Resolution |-> "", ResolutionDate |-> <<>>],
     [Resolution |-> "Done", ResolutionDate |-> <<>>],
     [Resolution |-> "Done", ResolutionDate |-> <<InstantAt(13, 2)>>],
     [Resolution |-> "Done", ResolutionDate |-> <<InstantAt(13, 3)>>],
     [Resolution |-> "Done", ResolutionDate |-> <<InstantAt(14, 0)>>]}

BacklogBugSet ==
    {[Priority |-> "High", Created |-> c, Resolution |-> r.Resolution,
      ResolutionDate |-> r.ResolutionDate] :
        c \in BacklogCreatedTimes, r \in BacklogResolutions}

\* the key groupByMonth files a bug under
MonthKey(bug) == MonthStart(LocalMonth(bug.Created))

\* groupByMonth: month key -> the bugs filed under it, in list order
groupByMonth(bugList) ==
    [month \in {MonthKey(bugList[p]) : p \in DOMAIN bugList} |->
        SelectSeq([p \in DOMAIN bugList |-> p],
                  LAMBDA p : MonthKey(bugList[p]) = month)]

RECURSIVE SortMonthsDescending(_)
SortMonthsDescending(keys) ==
    IF keys = {} THEN <<>>
    ELSE LET last == CHOOSE m \in keys : \A other \in keys : other <= m
         IN <<last>> \o SortMonthsDescending(keys \ {last})

\* the keys of the grouping, collected and sorted with Before: the keys are
\* distinct, so whatever order the map yields them in, the outcome is one
RECURSIVE SortMonths(_)
SortMonths(keys) ==
    IF keys = {} THEN <<>>
    ELSE LET first == CHOOSE m \in keys : \A other \in keys : m <= other
         IN <<first>> \o SortMonths(keys \ {first})

CalculateGoalTargetTruncated(lastYearCount, reductionPercent) ==
    LET hundredths == lastYearCount * 100 - lastYearCount * reductionPercent
    IN IF hundredths >= 0 THEN hundredths \div 100
       ELSE -((-hundredths) \div 100)

\* calculateGoalTarget: lastYearCount - lastYearCount * (percent / 100),
\* then math.Round, which rounds half away from zero
calculateGoalTarget(lastYearCount, reductionPercent) ==
    LET hundredths == lastYearCount * 100 - lastYearCount * reductionPercent
    IN IF hundredths >= 0 THEN (hundredths + 50) \div 100
       ELSE -((-hundredths + 50) \div 100)

buildPriorityBreakdownOfPresence(bugList, ptrs) ==
    [pr \in {bugList[ptrs[i]].Priority : i \in DOMAIN ptrs} |-> 1]

\* buildPriorityBreakdown: priority -> how many of the month's bugs have it
buildPriorityBreakdown(bugList, ptrs) ==
    [pr \in {bugList[ptrs[i]].Priority : i \in DOMAIN ptrs} |->
        Cardinality({i \in DOMAIN ptrs : bugList[ptrs[i]].Priority = pr})]

RECURSIVE countUnresolvedByLabel(_, _, _)
countUnresolvedByLabel(bugList, p, date) ==
    IF p > Len(bugList) THEN 0
    ELSE LET bug == bugList[p]
             rest == countUnresolvedByLabel(bugList, p + 1, date)
         IN IF bug.Created.instant > date THEN rest
            ELSE IF bug.Resolution = "" THEN 1 + rest
            ELSE rest

\* countUnresolvedAtDate, from bug p
RECURSIVE countUnresolvedFrom(_, _, _)
countUnresolvedFrom(bugList, p, date) ==
    IF p > Len(bugList) THEN 0
    ELSE LET bug == bugList[p]
             rest == countUnresolvedFrom(bugList, p + 1, date)
         IN IF bug.Created.instant > date THEN rest
            ELSE IF \/ bug.Resolution = ""
                    \/ /\ bug.ResolutionDate # <<>>
                       /\ bug.ResolutionDate[1] > date
                 THEN 1 + rest
                 ELSE rest

countUnresolvedAtDate(bugList, date) == countUnresolvedFrom(bugList, 1, date)

\* countResolvedInMonth, from bug p
RECURSIVE countResolvedFrom(_, _, _)
countResolvedFrom(bugList, p, monthStart) ==
    IF p > Len(bugList) THEN 0
    ELSE LET bug == bugList[p]
             monthEnd == MonthEnd(monthStart)
             rest == countResolvedFrom(bugList, p + 1, monthStart)
         IN IF /\ bug.ResolutionDate # <<>>
               /\ ~(bug.ResolutionDate[1] < monthStart)
               /\ ~(bug.ResolutionDate[1] > monthEnd)
            THEN 1 + rest
            ELSE rest

countResolvedInMonth(bugList, monthStart) == countResolvedFrom(bugList, 1, monthStart)

ChangePercentUnguarded(created, previousCreatedCount) ==
    [num |-> (created - previousCreatedCount) * 100, den |-> previousCreatedCount]

\* the month-over-month change of Analyze, in percent
ChangePercent(created, previousCreatedCount) ==
    IF previousCreatedCount > 0
    THEN [num |-> (created - previousCreatedCount) * 100,
          den |-> previousCreatedCount]
    ELSE [num |-> 0, den |-> 1]

NetChangeOfCreated(created, previousCreatedCount) == created

\* MonthlyBugStats.NetChange as Analyze fills it in
NetChange(created, previousCreatedCount) == created - previousCreatedCount

\* the month loop of Analyze, from the i-th month
RECURSIVE MonthlyLoop(_, _, _, _, _, _)
MonthlyLoop(bugList, grouped, months, i, previousCreatedCount, monthlyData) ==
    IF i > Len(months) THEN monthlyData
    ELSE LET month == months[i]
             created == Len(grouped[month])
             entry ==
                [Month |-> month,
                 TotalCreated |-> created,
                 TotalResolved |-> countResolvedInMonth(bugList, month),
                 TotalUnresolved |-> countUnresolvedAtDate(bugList, MonthEnd(month)),
                 NetChange |-> NetChange(created, previousCreatedCount),
                 ChangePercent |-> ChangePercent(created, previousCreatedCount),
                 ByPriority |-> buildPriorityBreakdown(bugList, grouped[month])]
         IN MonthlyLoop(bugList, grouped, months, i + 1, created,
                        Append(monthlyData, entry))

FindMonthOfYear(monthlyData, monthStart) ==
    LET hits == {i \in DOMAIN monthlyData :
                    UTCMonth(monthlyData[i].Month) % MonthsPerYear
                        = UTCMonth(monthStart) % MonthsPerYear}
    IN IF hits = {} THEN 0
       ELSE CHOOSE i \in hits : \A j \in hits : j <= i

\* the pointer the lookup loop of Analyze leaves for monthStart: the last
\* entry whose Month equals it, 0 (nil) when there is none
FindMonth(monthlyData, monthStart) ==
    LET hits == {i \in DOMAIN monthlyData : monthlyData[i].Month = monthStart}
    IN IF hits = {} THEN 0
       ELSE CHOOSE i \in hits : \A j \in hits : j <= i

GoalOfCounts(monthlyData, currentMonth, lastYearSameMonth, reductionGoal) ==
    LET count(i) == IF i = 0 THEN 0 ELSE monthlyData[i].TotalCreated
        goalTarget == calculateGoalTarget(count(lastYearSameMonth), reductionGoal)
    IN [GoalTarget |-> goalTarget, OnTrack |-> count(currentMonth) <= goalTarget]

\* goalTarget and onTrack of Analyze
GoalAndTrack(monthlyData, currentMonth, lastYearSameMonth, reductionGoal) ==
    IF lastYearSameMonth # 0 /\ currentMonth # 0
    THEN LET goalTarget ==
                calculateGoalTarget(monthlyData[lastYearSameMonth].TotalCreated,
                                    reductionGoal)
         IN [GoalTarget |-> goalTarget,
             OnTrack |-> monthlyData[currentMonth].TotalCreated <= goalTarget]
    ELSE [GoalTarget |-> 0, OnTrack |-> FALSE]

\* Analyzer.Analyze; clockMonth is the calendar month time.Now() reads
Analyze(bugList, reductionGoal, clockMonth) ==
    LET grouped == groupByMonth(bugList)
        months == SortMonths(DOMAIN grouped)
        monthlyData == MonthlyLoop(bugList, grouped, months, 1, 0, <<>>)
        currentMonthStart == MonthStart(clockMonth)
        lastYearMonthStart == MonthStart(clockMonth - MonthsPerYear)
        currentMonth == FindMonth(monthlyData, currentMonthStart)
        lastYearSameMonth == FindMonth(monthlyData, lastYearMonthStart)
        goal == GoalAndTrack(monthlyData, currentMonth, lastYearSameMonth,
                             reductionGoal)
    IN [MonthlyData |-> monthlyData,
        CurrentMonth |-> currentMonth,
        LastYearSameMonth |-> lastYearSameMonth,
        ReductionGoal |-> reductionGoal,
        GoalTarget |-> goal.GoalTarget,
        OnTrack |-> goal.OnTrack,
        SprintStats |-> <<>>]

(***************************************************************************)
(* stats: the sprint aggregator                                            *)
(*                                                                         *)
(* A string is the sequence of its characters.  Sprint names, prefixes and *)
(* patterns are written over the characters T X . ( ^ \ ; Byte gives the   *)
(* code Go compares them by.  regexp.Compile is modelled for the patterns  *)
(* these characters can spell:                                             *)
(*   T X      a literal character          .    any character              *)
(*   ^        the beginning of the text    \c   the character c, literal,  *)
(*   (        a group that is never closed:      for c one of . ( ^ \      *)
(*            "missing closing )"          \T \X  "invalid escape sequence" *)
(*   a trailing \ : "trailing backslash at end of expression"              *)
(* A *regexp.Regexp is [nil |-> TRUE] or a compiled program; a map is a    *)
(* function; ranging over a map yields its keys in any order.              *)
(***************************************************************************)
MaxSprintIssues == 2     \* longest issue list handed to the sprint functions

Byte(c) ==
    CASE c = "(" -> 40
      [] c = "." -> 46
      [] c = "T" -> 84
      [] c = "X" -> 88
      [] c = "\\" -> 92
      [] c = "^" -> 94

\* a < b on Go strings: byte-wise, a proper prefix first
RECURSIVE StringLess(_, _)
StringLess(a, b) ==
    IF b = <<>> THEN FALSE
    ELSE IF a = <<>> THEN TRUE
    ELSE IF Head(a) # Head(b) THEN Byte(Head(a)) < Byte(Head(b))
    ELSE StringLess(Tail(a), Tail(b))

\* the characters regexp.QuoteMeta escapes, of those the model writes
MetaCharacters == {"\\", ".", "(", "^"}

QuoteNothing(s) == s

\* regexp.QuoteMeta
RECURSIVE QuoteMeta(_)
QuoteMeta(s) ==
    IF s = <<>> THEN <<>>
    ELSE (IF Head(s) \in MetaCharacters THEN <<"\\", Head(s)>> ELSE <<Head(s)>>)
            \o QuoteMeta(Tail(s))

\* the parser of regexp.Compile, from character i of the pattern
RECURSIVE ParsePattern(_, _)
ParsePattern(pattern, i) ==
    IF i > Len(pattern) THEN [err |-> FALSE, prog |-> <<>>]
    ELSE LET c == pattern[i]
             step == IF c = "\\" THEN 2 ELSE 1
             failed ==
                \/ c = "("
                \/ c = "\\" /\ i = Len(pattern)
                \/ c = "\\" /\ i < Len(pattern) /\ pattern[i + 1] \notin MetaCharacters
             element ==
                IF c = "\\" THEN [kind |-> "literal", char |-> pattern[i + 1]]
                ELSE IF c = "." THEN [kind |-> "any", char |-> ""]
                ELSE IF c = "^" THEN [kind |-> "begin", char |-> ""]
                ELSE [kind |-> "literal", char |-> c]
         IN IF failed THEN [err |-> TRUE, prog |-> <<>>]
            ELSE LET rest == ParsePattern(pattern, i + step)
                 IN IF rest.err THEN rest
                    ELSE [err |-> FALSE, prog |-> <<element>> \o rest.prog]

\* regexp.Compile: (nil, err) for a pattern that does not parse
Compile(pattern) ==
    LET parsed == ParsePattern(pattern, 1)
    IN IF parsed.err
       THEN [re |-> [nil |-> TRUE, prog |-> <<>>], err |-> TRUE]
       ELSE [re |-> [nil |-> FALSE, prog |-> parsed.prog], err |-> FALSE]

\* the program from its k-th element matches s from position pos on
RECURSIVE MatchAt(_, _, _, _)
MatchAt(prog, k, s, pos) ==
    IF k > Len(prog) THEN TRUE
    ELSE CASE prog[k].kind = "begin" ->
                pos = 1 /\ MatchAt(prog, k + 1, s, pos)
           [] prog[k].kind = "any" ->
                pos <= Len(s) /\ MatchAt(prog, k + 1, s, pos + 1)
           [] prog[k].kind = "literal" ->
                /\ pos <= Len(s)
                /\ s[pos] = prog[k].char
                /\ MatchAt(prog, k + 1, s, pos + 1)

\* Regexp.MatchString: the pattern matches somewhere in s
MatchString(re, s) ==
    \E start \in 1..(Len(s) + 1) : MatchAt(re.prog, 1, s, start)

SprintIDs == {"", "1", "2"}
SprintNames == {<<"T", ".">>, <<"T", "X">>}
IssueTypes == {"Bug", "Story"}
StoryPointValues == {-1, 0, 1}
SprintIssueSet ==
    [SprintID : SprintIDs, SprintName : SprintNames,
     IssueType : IssueTypes, StoryPoints : StoryPointValues]

SprintNamePrefixes == {<<>>, <<"T", ".">>, <<"X">>}
SprintNamePatterns == {<<>>, <<"T", ".">>, <<"X">>, <<"T", "(">>}

\* the sequences that list every element of S once
Orderings(S) ==
    {f \in [1..Cardinality(S) -> S] : \A x \in S : \E i \in DOMAIN f : f[i] = x}

ExtractSprintIDsKeepingEmpty(bugList) ==
    Orderings({bugList[p].SprintID : p \in DOMAIN bugList})

\* ExtractSprintIDs: the slices it can return, one per order in which the
\* map can yield its keys
ExtractSprintIDs(bugList) ==
    LET sprintMap == {bugList[p].SprintID : p \in DOMAIN bugList} \ {""}
    IN Orderings(sprintMap)

NameFilterFallingBackToPrefix(sprintNameBeginsWith, sprintNamePattern) ==
    IF sprintNamePattern # <<>> /\ ~Compile(sprintNamePattern).err
    THEN Compile(sprintNamePattern).re
    ELSE IF sprintNameBeginsWith # <<>>
    THEN Compile(<<"^">> \o QuoteMeta(sprintNameBeginsWith)).re
    ELSE [nil |-> TRUE, prog |-> <<>>]

\* nameFilter as ExtractAndFilterSprints compiles it: the pattern when one
\* is configured, else the quoted prefix when one is, else none; Compile
\* hands back nil with its error
ExtractNameFilter(sprintNameBeginsWith, sprintNamePattern) ==
    IF sprintNamePattern # <<>>
    THEN Compile(sprintNamePattern).re
    ELSE IF sprintNameBeginsWith # <<>>
    THEN Compile(<<"^">> \o QuoteMeta(sprintNameBeginsWith)).re
    ELSE [nil |-> TRUE, prog |-> <<>>]

\* nameFilter as CalculateSprintStats compiles it: the same, with nil
\* assigned on an error
StatsNameFilter(sprintNameBeginsWith, sprintNamePattern) ==
    IF sprintNamePattern # <<>>
    THEN LET compiled == Compile(sprintNamePattern)
         IN IF compiled.err THEN [nil |-> TRUE, prog |-> <<>>] ELSE compiled.re
    ELSE IF sprintNameBeginsWith # <<>>
    THEN LET compiled == Compile(<<"^">> \o QuoteMeta(sprintNameBeginsWith))
         IN IF compiled.err THEN [nil |-> TRUE, prog |-> <<>>] ELSE compiled.re
    ELSE [nil |-> TRUE, prog |-> <<>>]

\* sprintMap of ExtractAndFilterSprints: ID -> the name on the last bug
\* that carries the ID
ExtractSprintMap(bugList) ==
    [id \in {bugList[p].SprintID : p \in DOMAIN bugList} \ {""} |->
        LET last == CHOOSE p \in DOMAIN bugList :
                        /\ bugList[p].SprintID = id
                        /\ \A q \in DOMAIN bugList :
                              bugList[q].SprintID = id => q <= p
        IN bugList[last].SprintName]

\* ExtractAndFilterSprints: the slices it can return, one per order in
\* which the map can yield its keys
ExtractAndFilterSprints(bugList, sprintNameBeginsWith, sprintNamePattern) ==
    LET sprintMap == ExtractSprintMap(bugList)
        nameFilter == ExtractNameFilter(sprintNameBeginsWith, sprintNamePattern)
        filteredIDs ==
            {id \in DOMAIN sprintMap :
                nameFilter.nil \/ MatchString(nameFilter, sprintMap[id])}
    IN Orderings(filteredIDs)

StatsKeptWithEmptyIDs(sprintIssues, nameFilter) ==
    SelectSeq([p \in DOMAIN sprintIssues |-> p],
              LAMBDA p :
                  ~(~nameFilter.nil
                      /\ ~MatchString(nameFilter, sprintIssues[p].SprintName)))

\* CalculateSprintStats: the issues the grouping loop keeps, by position
StatsKept(sprintIssues, nameFilter) ==
    SelectSeq([p \in DOMAIN sprintIssues |-> p],
              LAMBDA p :
                  /\ sprintIssues[p].SprintID # ""
                  /\ ~(~nameFilter.nil
                         /\ ~MatchString(nameFilter, sprintIssues[p].SprintName)))

RECURSIVE SprintTotalsPointsOfAll(_, _, _, _)
SprintTotalsPointsOfAll(sprintIssues, issues, k, totals) ==
    IF k > Len(issues) THEN totals
    ELSE LET issue == sprintIssues[issues[k]]
             counted ==
                IF issue.IssueType = "Bug"
                THEN [totals EXCEPT !.bugCount = @ + 1]
                ELSE [totals EXCEPT !.otherCount = @ + 1]
         IN SprintTotalsPointsOfAll(sprintIssues, issues, k + 1,
                [counted EXCEPT !.bugStoryPoints = @ + issue.StoryPoints,
                                !.totalStoryPoints = @ + issue.StoryPoints])

\* CalculateSprintStats: the loop over one sprint's issues, from the k-th
RECURSIVE SprintTotals(_, _, _, _)
SprintTotals(sprintIssues, issues, k, totals) ==
    IF k > Len(issues) THEN totals
    ELSE LET issue == sprintIssues[issues[k]]
             counted ==
                IF issue.IssueType = "Bug"
                THEN [totals EXCEPT !.bugCount = @ + 1,
                                    !.bugStoryPoints = @ + issue.StoryPoints]
                ELSE [totals EXCEPT !.otherCount = @ + 1]
         IN SprintTotals(sprintIssues, issues, k + 1,
                         [counted EXCEPT !.totalStoryPoints = @ + issue.StoryPoints])

\* CalculateSprintStats: the SprintStats of one sprint, from its issues
SprintStatsOf(sprintIssues, sprintID, issues) ==
    LET totals == SprintTotals(sprintIssues, issues, 1,
                               [bugCount |-> 0, otherCount |-> 0,
                                bugStoryPoints |-> 0, totalStoryPoints |-> 0])
        totalCount == totals.bugCount + totals.otherCount
    IN [SprintID |-> sprintID,
        SprintName |-> sprintIssues[issues[Len(issues)]].SprintName,
        BugCount |-> totals.bugCount,
        OtherCount |-> totals.otherCount,
        TotalCount |-> totalCount,
        BugPercentage |->
            IF totalCount > 0
            THEN [num |-> totals.bugCount * 100, den |-> totalCount]
            ELSE [num |-> 0, den |-> 1],
        BugStoryPoints |-> totals.bugStoryPoints,
        TotalStoryPoints |-> totals.totalStoryPoints,
        PointsPercentage |->
            IF totals.totalStoryPoints > 0
            THEN [num |-> totals.bugStoryPoints * 100,
                  den |-> totals.totalStoryPoints]
            ELSE [num |-> 0, den |-> 1]]

\* Analyzer.CalculateSprintStats: the slices it can return; sort.Slice
\* orders by SprintName and leaves sprints of one name in any order
CalculateSprintStats(sprintIssues, sprintNameBeginsWith, sprintNamePattern) ==
    LET nameFilter == StatsNameFilter(sprintNameBeginsWith, sprintNamePattern)
        kept == StatsKept(sprintIssues, nameFilter)
        sprintGroups ==
            [id \in {sprintIssues[kept[i]].SprintID : i \in DOMAIN kept} |->
                SelectSeq(kept, LAMBDA p : sprintIssues[p].SprintID = id)]
        stats == {SprintStatsOf(sprintIssues, id, sprintGroups[id]) :
                    id \in DOMAIN sprintGroups}
    IN {s \in Orderings(stats) :
            \A i, j \in DOMAIN s :
                i < j => ~StringLess(s[j].SprintName, s[i].SprintName)}

(***************************************************************************)
(* cli: the check command                                                  *)
(*                                                                         *)
(* runCheck loads the configuration, creates the Jira client, fetches the  *)
(* bugs, evaluates them and calls os.Exit(1) when the group has a bucket;  *)
(* any error it returns reaches main, which logs it and calls os.Exit(1);  *)
(* a nil return lets main end, with exit code 0.  Which of the three calls *)
(* fails, and what was configured and fetched, is the environment's        *)
(* choice.                                                                 *)
(***************************************************************************)
\* the rule lists config.Load accepts: Validate wants at least one rule
LoadedRuleLists == SeqsUpTo(ConfigRuleSet, MaxRules) \ {<<>>}

\* runCheck followed by main's handling of its error: what the run fetched
\* and evaluated, the error it returned and the process's exit code
runCheck(loadFails, clientFails, fetchFails, cfg, bugList, clock) ==
    LET nothing == [Cfg |-> <<>>, Bugs |-> <<>>, Evaluated |-> FALSE,
                    Group |-> <<>>, Err |-> "", Exit |-> 0]
    IN IF loadFails
       THEN [nothing EXCEPT !.Err = "failed to load configuration", !.Exit = 1]
       ELSE IF clientFails
       THEN [nothing EXCEPT !.Cfg = cfg,
                            !.Err = "failed to create Jira client", !.Exit = 1]
       ELSE IF fetchFails
       THEN [nothing EXCEPT !.Cfg = cfg,
                            !.Err = "failed to fetch bugs", !.Exit = 1]
       ELSE IF Len(bugList) = 0
       THEN [nothing EXCEPT !.Cfg = cfg]
       ELSE LET bucketGroup == Evaluate(DomainRules(cfg), bugList, clock)
            IN [Cfg |-> cfg, Bugs |-> bugList, Evaluated |-> TRUE,
                Group |-> bucketGroup, Err |-> "",
                Exit |-> IF Len(bucketGroup) > 0 THEN 1 ELSE 0]

(***************************************************************************)
(* jira: the paginated fetch                                               *)
(*                                                                         *)
(* FetchBugs, FetchBugsByDateRange and FetchIssuesBySprints share one      *)
(* loop; they differ in the query, and FetchIssuesBySprints returns at     *)
(* once, without a request, when given no sprint id.  A request carries    *)
(* the nextPageToken parameter, "" standing for a request without it; the  *)
(* server's answer (a page of issues and a token, or a failure) is the     *)
(* environment's choice.  An issue is its key.  MapIssueToBug fails only   *)
(* on a nil pointer, which &issue never is, so every issue of a page is    *)
(* appended.                                                               *)
(***************************************************************************)
MaxPages == 3     \* most requests one fetch makes

FetchFunctions == {"FetchBugs", "FetchBugsByDateRange", "FetchIssuesBySprints"}
SprintIDLists == {<<>>, <<"1">>}
PageIssueLists == {<<>>, <<"K1">>, <<"K2">>, <<"K1", "K2">>}
PageTokens == {"", "t1", "t2"}

\* MapIssueToBug, of the issue's fields the key
MapIssueToBug(issue) == [Key |-> issue]

AppendPageOverwriting(allBugs, issues) ==
    [i \in DOMAIN issues |-> MapIssueToBug(issues[i])]

\* the loop over searchResp.Issues: every issue mapped and appended
AppendPage(allBugs, issues) ==
    allBugs \o [i \in DOMAIN issues |-> MapIssueToBug(issues[i])]

(***************************************************************************)
(* Initial state: nothing constructed or called yet                        *)
(***************************************************************************)
BucketInit ==
    /\ bg = <<>>
    /\ calls = <<>>
    /\ lastOp = "none"
    /\ prevBg = <<>>

RuleInit ==
    /\ mOp = "none"
    /\ mRule = [Name |-> "rule", Priority |-> "", Status |-> <<>>,
                MaxAgeDays |-> 0, BucketName |-> "URGENT", Severity |-> 1]
    /\ mBug = [Priority |-> "Critical", Status |-> "Backlog", Updated |-> 0]
    /\ mNow = 0
    /\ mOut = FALSE

TrendInit ==
    /\ tOp = "none"
    /\ tGoal = 0
    /\ tMonths = 0
    /\ tBugs = <<>>
    /\ tNow = 0
    /\ tStats = [MonthlyData |-> <<>>, CurrentMonth |-> 0,
                 LastYearSameMonth |-> 0, ReductionGoal |-> 0,
                 GoalTarget |-> 0, OnTrack |-> FALSE, SprintStats |-> <<>>]
    /\ tErr = "none"

SprintInit ==
    /\ sOp = "none"
    /\ sIssues = <<>>
    /\ sPrefix = <<>>
    /\ sPattern = <<>>
    /\ sOut = <<>>

CheckInit ==
    /\ cPc = "start"
    /\ cRun = [Cfg |-> <<>>, Bugs |-> <<>>, Evaluated |-> FALSE,
               Group |-> <<>>, Err |-> "", Exit |-> 0]
    /\ cNow = 0

FetchInit ==
    /\ fPc = "idle"
    /\ fFunc = "none"
    /\ fToken = ""
    /\ fAll = <<>>
    /\ fSent = <<>>
    /\ fPages = <<>>
    /\ fResult = <<>>
    /\ fErr = FALSE

EvalInit ==
    /\ pc = "new"
    /\ cfgRules = <<>>
    /\ rules = <<>>
    /\ bugs = <<>>
    /\ now = 1
    /\ result = <<>>

Init == EvalInit /\ BucketInit /\ RuleInit /\ TrendInit /\ SprintInit
        /\ CheckInit /\ FetchInit

(***************************************************************************)
(* Spec: NewEvaluator, then Evaluate                                       *)
(***************************************************************************)
NewEvaluator ==
    /\ pc = "new"
    /\ \E cfg \in SeqsUpTo(ConfigRuleSet, MaxRules) :
          /\ cfgRules' = cfg
          /\ rules' = DomainRules(cfg)
    /\ pc' = "ready"
    /\ UNCHANGED <<bugs, now, result, bucketVars, ruleVars, trendVars, sprintVars, checkVars, fetchVars>>

EvaluateCall ==
    /\ pc = "ready"
    /\ \E bugList \in SeqsUpTo(BugSet, MaxBugs), clock \in ClockTimes :
          /\ bugs' = bugList
          /\ now' = clock
          /\ result' = Evaluate(rules, bugList, clock)
    /\ pc' = "evaluated"
    /\ UNCHANGED <<cfgRules, rules, bucketVars, ruleVars, trendVars, sprintVars, checkVars, fetchVars>>

Next == NewEvaluator \/ EvaluateCall

Spec == Init /\ [][Next]_vars

(***************************************************************************)
(* SpecBucket: AddToBucket and Sort called on one BucketGroup, which       *)
(* starts as the empty &BucketGroup{}                                      *)
(***************************************************************************)
AddToBucketCall ==
    /\ Len(calls) < MaxCalls
    /\ \E bucketName \in BucketNames, severity \in Severities, bug \in 1..MaxBugs :
          /\ bg' = AddToBucket(bg, bucketName, severity, bug)
          /\ calls' = Append(calls, [Name |-> bucketName, Severity |-> severity,
                                     Bug |-> bug])
    /\ prevBg' = bg
    /\ lastOp' = "AddToBucket"
    /\ UNCHANGED <<evalVars, ruleVars, trendVars, sprintVars, checkVars, fetchVars>>

SortCall ==
    /\ bg' = Sort(bg)
    /\ prevBg' = bg
    /\ lastOp' = "Sort"
    /\ UNCHANGED <<calls, evalVars, ruleVars, trendVars, sprintVars, checkVars, fetchVars>>

NextBucket == AddToBucketCall \/ SortCall

SpecBucket == Init /\ [][NextBucket]_vars

(***************************************************************************)
(* SpecRule: Matches and Violates applied to one rule, as NewEvaluator      *)
(* makes it of a configured rule, and one bug                              *)
(***************************************************************************)
MatcherPriorities == {"", "Critical", "Unknown"}
MatcherStatusLists == {<<>>, <<"Backlog">>, <<"Needs Triage", "Backlog">>, <<"Done">>}
MatcherMaxAges == {0, 1, 2}
MatcherClockTimes == {1, 2, 3}

MatcherRuleSet ==
    [Name : {"rule"}, Priority : MatcherPriorities, Status : MatcherStatusLists,
     MaxAgeDays : MatcherMaxAges, Bucket : {"URGENT"}, Severity : {1}]

MatcherBugSet ==
    [Priority : {"Critical", "Low", "Unknown"},
     Status : {"Backlog", "Needs Triage", "In Progress"},
     Updated : UpdatedTimes]

\* the rules NewEvaluator makes of the configured rules
MatcherDomainRules == {ToDomainRule(rule) : rule \in MatcherRuleSet}

InitRule ==
    /\ EvalInit
    /\ BucketInit
    /\ TrendInit
    /\ SprintInit
    /\ CheckInit
    /\ FetchInit
    /\ mOp = "none"
    /\ mRule \in MatcherDomainRules
    /\ mBug \in MatcherBugSet
    /\ mNow \in MatcherClockTimes
    /\ mOut = FALSE

MatchesCall ==
    /\ mOut' = Matches(mRule, mBug)
    /\ mOp' = "Matches"
    /\ UNCHANGED <<mRule, mBug, mNow, evalVars, bucketVars, trendVars, sprintVars, checkVars, fetchVars>>

ViolatesCall ==
    /\ mOut' = Violates(mRule, mBug, mNow)
    /\ mOp' = "Violates"
    /\ UNCHANGED <<mRule, mBug, mNow, evalVars, bucketVars, trendVars, sprintVars, checkVars, fetchVars>>

NextRule == MatchesCall \/ ViolatesCall

SpecRule == InitRule /\ [][NextRule]_vars

(***************************************************************************)
(* SpecTrend: NewAnalyzer, then Analyze                                    *)
(***************************************************************************)
NewAnalyzer ==
    /\ tOp = "none"
    /\ \E reductionGoal \in ReductionGoals, months \in MonthsToAnalyze :
          /\ tGoal' = reductionGoal
          /\ tMonths' = months
    /\ tOp' = "NewAnalyzer"
    /\ UNCHANGED <<tBugs, tNow, tStats, tErr, evalVars, bucketVars, ruleVars, sprintVars, checkVars, fetchVars>>

AnalyzeCall ==
    /\ tOp = "NewAnalyzer"
    /\ \E bugList \in SeqsUpTo(TrendBugSet, MaxTrendBugs), clockMonth \in ClockMonths :
          /\ tBugs' = bugList
          /\ tNow' = clockMonth
          /\ tStats' = Analyze(bugList, tGoal, clockMonth)
    /\ tErr' = "nil"
    /\ tOp' = "Analyze"
    /\ UNCHANGED <<tGoal, tMonths, evalVars, bucketVars, ruleVars, sprintVars, checkVars, fetchVars>>

NextTrend == NewAnalyzer \/ AnalyzeCall

SpecTrend == Init /\ [][NextTrend]_vars

(***************************************************************************)
(* SpecBacklog: NewAnalyzer, then Analyze on bugs of consecutive months    *)
(***************************************************************************)
AnalyzeBacklogCall ==
    /\ tOp = "NewAnalyzer"
    /\ \E bugList \in SeqsUpTo(BacklogBugSet, MaxTrendBugs), clockMonth \in ClockMonths :
          /\ tBugs' = bugList
          /\ tNow' = clockMonth
          /\ tStats' = Analyze(bugList, tGoal, clockMonth)
    /\ tErr' = "nil"
    /\ tOp' = "Analyze"
    /\ UNCHANGED <<tGoal, tMonths, evalVars, bucketVars, ruleVars, sprintVars, checkVars, fetchVars>>

NextBacklog == NewAnalyzer \/ AnalyzeBacklogCall

SpecBacklog == Init /\ [][NextBacklog]_vars

(***************************************************************************)
(* SpecSprint: one call of a sprint function                               *)
(***************************************************************************)
ExtractSprintIDsCall ==
    /\ sOp = "none"
    /\ \E bugList \in SeqsUpTo(SprintIssueSet, MaxSprintIssues) :
          /\ sIssues' = bugList
          /\ sOut' \in ExtractSprintIDs(bugList)
    /\ sOp' = "ExtractSprintIDs"
    /\ UNCHANGED <<sPrefix, sPattern, evalVars, bucketVars, ruleVars, trendVars, checkVars, fetchVars>>

ExtractAndFilterSprintsCall ==
    /\ sOp = "none"
    /\ \E bugList \in SeqsUpTo(SprintIssueSet, MaxSprintIssues),
          sprintNameBeginsWith \in SprintNamePrefixes,
          sprintNamePattern \in SprintNamePatterns :
          /\ sIssues' = bugList
          /\ sPrefix' = sprintNameBeginsWith
          /\ sPattern' = sprintNamePattern
          /\ sOut' \in ExtractAndFilterSprints(bugList, sprintNameBeginsWith,
                                               sprintNamePattern)
    /\ sOp' = "ExtractAndFilterSprints"
    /\ UNCHANGED <<evalVars, bucketVars, ruleVars, trendVars, checkVars, fetchVars>>

CalculateSprintStatsCall ==
    /\ sOp = "none"
    /\ \E sprintIssues \in SeqsUpTo(SprintIssueSet, MaxSprintIssues),
          sprintNameBeginsWith \in SprintNamePrefixes,
          sprintNamePattern \in SprintNamePatterns :
          /\ sIssues' = sprintIssues
          /\ sPrefix' = sprintNameBeginsWith
          /\ sPattern' = sprintNamePattern
          /\ sOut' \in CalculateSprintStats(sprintIssues, sprintNameBeginsWith,
                                            sprintNamePattern)
    /\ sOp' = "CalculateSprintStats"
    /\ UNCHANGED <<evalVars, bucketVars, ruleVars, trendVars, checkVars, fetchVars>>

NextSprint ==
    ExtractSprintIDsCall \/ ExtractAndFilterSprintsCall \/ CalculateSprintStatsCall

SpecSprint == Init /\ [][NextSprint]_vars

(***************************************************************************)
(* SpecCheck: one run of the check command                                 *)
(***************************************************************************)
RunCheck ==
    /\ cPc = "start"
    /\ \E loadFails \in BOOLEAN, clientFails \in BOOLEAN, fetchFails \in BOOLEAN,
          cfg \in LoadedRuleLists, bugList \in SeqsUpTo(BugSet, MaxBugs),
          clock \in ClockTimes :
          /\ cRun' = runCheck(loadFails, clientFails, fetchFails, cfg, bugList, clock)
          /\ cNow' = clock
    /\ cPc' = "exited"
    /\ UNCHANGED <<evalVars, bucketVars, ruleVars, trendVars, sprintVars, fetchVars>>

NextCheck == RunCheck

SpecCheck == Init /\ [][NextCheck]_vars

(***************************************************************************)
(* SpecFetch: one call of a fetch function                                 *)
(***************************************************************************)
\* the call, up to the loop; FetchIssuesBySprints given no id returns here
FetchCall ==
    /\ fPc = "idle"
    /\ \E func \in FetchFunctions, sprintIDs \in SprintIDLists :
          /\ fFunc' = func
          /\ IF func = "FetchIssuesBySprints" /\ Len(sprintIDs) = 0
             THEN fPc' = "returned"
             ELSE fPc' = "running"
    /\ UNCHANGED <<fToken, fAll, fSent, fPages, fResult, fErr,
                   evalVars, bucketVars, ruleVars, trendVars, sprintVars, checkVars>>

\* one turn of the loop: the request is made and answered with a page
FetchPage ==
    /\ fPc = "running"
    /\ Len(fSent) < MaxPages
    /\ \E issues \in PageIssueLists, nextPageToken \in PageTokens :
          /\ fSent' = Append(fSent, fToken)
          /\ fPages' = Append(fPages, [Issues |-> issues,
                                       NextPageToken |-> nextPageToken])
          /\ fAll' = AppendPage(fAll, issues)
          /\ IF nextPageToken = ""
             THEN /\ fResult' = AppendPage(fAll, issues)
                  /\ fPc' = "returned"
                  /\ UNCHANGED fToken
             ELSE /\ fToken' = nextPageToken
                  /\ UNCHANGED <<fResult, fPc>>
    /\ UNCHANGED <<fFunc, fErr,
                   evalVars, bucketVars, ruleVars, trendVars, sprintVars, checkVars>>

\* one turn of the loop: the request cannot be created (nothing is sent) or
\* is sent and fails; the function returns nil and the error
FetchPageFails ==
    /\ fPc = "running"
    /\ Len(fSent) < MaxPages
    /\ \E sent \in BOOLEAN :
          fSent' = IF sent THEN Append(fSent, fToken) ELSE fSent
    /\ fResult' = <<>>
    /\ fErr' = TRUE
    /\ fPc' = "returned"
    /\ UNCHANGED <<fFunc, fToken, fAll, fPages,
                   evalVars, bucketVars, ruleVars, trendVars, sprintVars, checkVars>>

NextFetch == FetchCall \/ FetchPage \/ FetchPageFails

SpecFetch == Init /\ [][NextFetch]_vars

(***************************************************************************)
(* What the claims speak of                                                *)
(***************************************************************************)
Range(s) == {s[i] : i \in DOMAIN s}

\* the rule's priority and status filters admit the bug
RuleCovers(r, bug) ==
    /\ r.Priority = "" \/ r.Priority = bug.Priority
    /\ r.Status = <<>> \/ bug.Status \in Range(r.Status)

\* the bug is older than the rule allows
TooOld(r, bug, clock) == clock - bug.Updated > r.MaxAgeDays

\* the first rule, in configured order, whose filters admit the bug; 0 if none
FirstCovering(rs, bug) ==
    IF \E i \in DOMAIN rs : RuleCovers(rs[i], bug)
    THEN CHOOSE i \in DOMAIN rs :
            /\ RuleCovers(rs[i], bug)
            /\ \A j \in 1..(i - 1) : ~RuleCovers(rs[j], bug)
    ELSE 0

\* the buckets of the Evaluate result that hold bug pointer p
BucketsHolding(p) == {i \in DOMAIN result : p \in Range(result[i].Bugs)}

\* how often bug pointer p occurs in the Evaluate result, over all buckets
Occurrences(p) ==
    Cardinality(UNION {{<<i, k>> : k \in {n \in DOMAIN result[i].Bugs : result[i].Bugs[n] = p}} :
                          i \in DOMAIN result})

\* the rules that the bug violates: admitted by the filters and too old
ViolatedRules(p) ==
    {i \in DOMAIN rules : RuleCovers(rules[i], bugs[p]) /\ TooOld(rules[i], bugs[p], now)}

(***************************************************************************)
(* Claims, checked under Spec                                              *)
(***************************************************************************)
\* C1: first-match-wins. If the first rule (in configured order) that matches
\* an issue is not violated by it, Evaluate puts the issue in no bucket, even
\* when a later rule matches it and is violated by it.
C1_FirstMatchWins ==
    pc = "evaluated" =>
        \A p \in DOMAIN bugs :
            LET f == FirstCovering(rules, bugs[p]) IN
            (f # 0 /\ ~TooOld(rules[f], bugs[p], now)) => BucketsHolding(p) = {}

\* C2: exclusivity. Every issue of the input list is in at most one bucket of
\* the Evaluate result, and at most once in that bucket.
C2_Exclusive ==
    pc = "evaluated" => \A p \in DOMAIN bugs : Occurrences(p) <= 1

\* an issue that violates two rules naming different buckets was evaluated
C2_Witness ==
    /\ pc = "evaluated"
    /\ \E p \in DOMAIN bugs :
          /\ \E i, j \in ViolatedRules(p) : rules[i].BucketName # rules[j].BucketName
          /\ Occurrences(p) = 1

\* C3: when the first rule that matches an issue is also violated by it, the
\* issue is in the bucket that rule names and in no other bucket, even if
\* later rules match it and are violated too.
C3_FirstViolatedRuleBuckets ==
    pc = "evaluated" =>
        \A p \in DOMAIN bugs :
            LET f == FirstCovering(rules, bugs[p]) IN
            (f # 0 /\ TooOld(rules[f], bugs[p], now)) =>
                /\ BucketsHolding(p) # {}
                /\ \A i \in BucketsHolding(p) : result[i].Name = rules[f].BucketName

\* an issue violates its first matching rule and a later rule of another bucket
C3_Witness ==
    /\ pc = "evaluated"
    /\ \E p \in DOMAIN bugs :
          LET f == FirstCovering(rules, bugs[p]) IN
          /\ f # 0
          /\ f \in ViolatedRules(p)
          /\ \E j \in ViolatedRules(p) : j > f /\ rules[j].BucketName # rules[f].BucketName
          /\ \E i \in BucketsHolding(p) : result[i].Name = rules[f].BucketName

\* C4: an issue that no rule matches (every issue when the rule list is empty;
\* an issue of priority "Unknown" when every rule filters on another priority)
\* is in no bucket of the Evaluate result.
C4_UnmatchedIsCompliant ==
    pc = "evaluated" =>
        \A p \in DOMAIN bugs :
            (\A i \in DOMAIN rules : ~RuleCovers(rules[i], bugs[p])) =>
                BucketsHolding(p) = {}

\* an "Unknown" issue, older than a rule allows, that no rule of a non-empty
\* list matches, evaluated beside an issue that was bucketed
C4_Witness ==
    /\ pc = "evaluated"
    /\ rules # <<>>
    /\ result # <<>>
    /\ \E p \in DOMAIN bugs :
          /\ bugs[p].Priority = "Unknown"
          /\ \A i \in DOMAIN rules : ~RuleCovers(rules[i], bugs[p])
          /\ \E i \in DOMAIN rules : TooOld(rules[i], bugs[p], now)
          /\ BucketsHolding(p) = {}

\* C9: within every bucket of the Evaluate result the issues are in the order
\* of the input list (fetch order): AddToBucket appends, Sort moves whole
\* buckets only.
C9_FetchOrderInBucket ==
    pc = "evaluated" =>
        \A i \in DOMAIN result :
            /\ Range(result[i].Bugs) \subseteq DOMAIN bugs
            /\ \A k, n \in DOMAIN result[i].Bugs :
                  k < n => result[i].Bugs[k] < result[i].Bugs[n]

\* two issues share a bucket, the later one put there by another rule than
\* the earlier one
C9_Witness ==
    /\ pc = "evaluated"
    /\ \E i \in DOMAIN result :
          /\ Len(result[i].Bugs) = 2
          /\ FirstCovering(rules, bugs[result[i].Bugs[1]])
                # FirstCovering(rules, bugs[result[i].Bugs[2]])

\* C10: NewEvaluator keeps the configured rules in load order and number: the
\* i-th rule Evaluate scans is the i-th configured rule, with the same
\* priority, status list, maximum age, bucket name and severity.
C10_RulesInLoadOrder ==
    pc # "new" =>
        /\ Len(rules) = Len(cfgRules)
        /\ \A i \in DOMAIN cfgRules :
              /\ rules[i].Name = cfgRules[i].Name
              /\ rules[i].Priority = cfgRules[i].Priority
              /\ rules[i].Status = cfgRules[i].Status
              /\ rules[i].MaxAgeDays = cfgRules[i].MaxAgeDays
              /\ rules[i].BucketName = cfgRules[i].Bucket
              /\ rules[i].Severity = cfgRules[i].Severity

\* an evaluator was made of two different rules, one with a status list and
\* one with a priority and no status
C10_Witness ==
    /\ pc = "ready"
    /\ Len(cfgRules) = 2
    /\ cfgRules[1] # cfgRules[2]
    /\ \E i \in DOMAIN cfgRules : cfgRules[i].Status # <<>>
    /\ \E i \in DOMAIN cfgRules : cfgRules[i].Status = <<>> /\ cfgRules[i].Priority # ""

(***************************************************************************)
(* Claims, checked under SpecRule                                          *)
(***************************************************************************)
\* C5: Violates(rule, issue) is true iff the rule matches the issue and the
\* issue's age is strictly greater than rule.MaxAgeDays; an issue whose age
\* equals MaxAgeDays never violates, and an issue the rule does not match
\* never violates, whatever its age.
C5_ViolatesIsStrict ==
    mOp = "Violates" =>
        /\ mOut = (RuleCovers(mRule, mBug) /\ TooOld(mRule, mBug, mNow))
        /\ mNow - mBug.Updated = mRule.MaxAgeDays => mOut = FALSE
        /\ ~RuleCovers(mRule, mBug) => mOut = FALSE

\* Violates was asked about an issue the rule matches, exactly at the threshold
C5_Witness ==
    /\ mOp = "Violates"
    /\ RuleCovers(mRule, mBug)
    /\ mNow - mBug.Updated = mRule.MaxAgeDays
    /\ mOut = FALSE

\* C6: Matches(rule, issue) is true iff (rule.Priority is empty or equals
\* issue.Priority) and (rule.Status is empty or contains issue.Status); a rule
\* with no priority and no status filter matches every issue.
C6_MatchesIsPriorityAndStatus ==
    mOp = "Matches" =>
        /\ mOut = RuleCovers(mRule, mBug)
        /\ (mRule.Priority = "" /\ mRule.Status = <<>>) => mOut = TRUE

\* Matches found the issue's status in second place of the rule's status list
C6_Witness ==
    /\ mOp = "Matches"
    /\ Len(mRule.Status) = 2
    /\ mRule.Status[1] # mBug.Status
    /\ mRule.Status[2] = mBug.Status
    /\ mOut = TRUE

(***************************************************************************)
(* Claims, checked under SpecBucket                                        *)
(***************************************************************************)
\* the AddToBucket calls that named bucketName, oldest first
CallsNaming(bucketName) == SelectSeq(calls, LAMBDA c : c.Name = bucketName)

\* the position in calls of the first call that named bucketName
FirstCallNaming(bucketName) ==
    CHOOSE k \in DOMAIN calls :
        /\ calls[k].Name = bucketName
        /\ \A n \in 1..(k - 1) : calls[n].Name # bucketName

\* C7: after any sequence of AddToBucket calls every bucket has the severity
\* passed by the first call that used its name; a later call with that name
\* and another severity only appends its issue; no two buckets share a name.
C7_SeverityFixedAtCreation ==
    /\ \A i, j \in DOMAIN bg : i # j => bg[i].Name # bg[j].Name
    /\ {bg[i].Name : i \in DOMAIN bg} = {calls[k].Name : k \in DOMAIN calls}
    /\ \A i \in DOMAIN bg :
          /\ bg[i].Severity = calls[FirstCallNaming(bg[i].Name)].Severity
          /\ bg[i].Bugs = [k \in DOMAIN CallsNaming(bg[i].Name) |->
                              CallsNaming(bg[i].Name)[k].Bug]
    /\ (lastOp = "AddToBucket" /\ Len(bg) = Len(prevBg)) =>
          \E i \in DOMAIN bg :
              bg = [prevBg EXCEPT ![i].Bugs = Append(@, calls[Len(calls)].Bug)]

\* the last AddToBucket named an existing bucket with another severity
C7_Witness ==
    /\ lastOp = "AddToBucket"
    /\ Len(bg) = Len(prevBg)
    /\ \E i \in DOMAIN bg :
          /\ bg[i].Name = calls[Len(calls)].Name
          /\ bg[i].Severity # calls[Len(calls)].Severity
          /\ Len(bg[i].Bugs) = Len(prevBg[i].Bugs) + 1

\* the buckets of s whose severity is in sevs, lowest severity first, those of
\* one severity in the order they have in s: a stable sort by severity
RECURSIVE StableBySeverity(_, _)
StableBySeverity(s, sevs) ==
    IF sevs = {} THEN <<>>
    ELSE LET low == CHOOSE v \in sevs : \A w \in sevs : v <= w
         IN  SelectSeq(s, LAMBDA b : b.Severity = low)
                 \o StableBySeverity(s, sevs \ {low})

StableSort(s) == StableBySeverity(s, {s[i].Severity : i \in DOMAIN s})

\* C8: after Sort the buckets are in non-decreasing severity order and buckets
\* of equal severity keep the order in which they were first created: the
\* exchange sort gives what a stable sort by severity gives.
C8_SortIsStable ==
    /\ lastOp = "Sort" =>
          /\ \A i, j \in DOMAIN bg : i < j => bg[i].Severity <= bg[j].Severity
          /\ bg = StableSort(prevBg)
    /\ \A i, j \in DOMAIN bg :
          (i < j /\ bg[i].Severity = bg[j].Severity) =>
              FirstCallNaming(bg[i].Name) < FirstCallNaming(bg[j].Name)

\* Sort moved a bucket in a group of three of which two have equal severity
C8_Witness ==
    /\ lastOp = "Sort"
    /\ Len(bg) = 3
    /\ bg # prevBg
    /\ \E i, j \in DOMAIN bg : i < j /\ bg[i].Severity = bg[j].Severity

\* C8 for the group Evaluate returns (a companion of C8_SortIsStable, checked
\* under Spec): it is the stable sort of the buckets in creation order
EvaluateResultSorted ==
    pc = "evaluated" =>
        /\ \A i, j \in DOMAIN result : i < j => result[i].Severity <= result[j].Severity
        /\ result = StableSort(ProcessBugs(rules, bugs, 1, now, <<>>))

\* Evaluate returned two buckets that Sort had to exchange
EvaluateResultSortedWitness ==
    /\ pc = "evaluated"
    /\ Len(result) = 2
    /\ result # ProcessBugs(rules, bugs, 1, now, <<>>)

(***************************************************************************)
(* Claims about the trend analyzer, checked under SpecTrend                *)
(***************************************************************************)
\* the last instant that belongs to the calendar month starting at month
FinalInstant(month) == InstantAt(UTCMonth(month) + 1, 0) - 1

\* how many input issues exist and are unresolved as of date
UnresolvedAsOf(date) ==
    Cardinality({p \in DOMAIN tBugs :
        /\ tBugs[p].Created.instant <= date
        /\ \/ tBugs[p].Resolution = ""
           \/ /\ tBugs[p].ResolutionDate # <<>>
              /\ tBugs[p].ResolutionDate[1] > date})

\* how many input issues have a resolution timestamp from lo through hi
ResolvedWithin(lo, hi) ==
    Cardinality({p \in DOMAIN tBugs :
        /\ tBugs[p].ResolutionDate # <<>>
        /\ lo <= tBugs[p].ResolutionDate[1]
        /\ tBugs[p].ResolutionDate[1] <= hi})

\* C11: for every month M of the series Analyze returns, the unresolved
\* count is the number of input issues created no later than M's final
\* instant whose resolution label is empty or whose resolution timestamp is
\* after that instant.
C11_UnresolvedAtFinalInstant ==
    tOp = "Analyze" =>
        \A i \in DOMAIN tStats.MonthlyData :
            tStats.MonthlyData[i].TotalUnresolved
                = UnresolvedAsOf(FinalInstant(tStats.MonthlyData[i].Month))

\* the same count taken as of 23:59:59.000 of the month's last day (a
\* companion of C11_UnresolvedAtFinalInstant: this is what Analyze yields)
UnresolvedAtLastWholeSecond ==
    tOp = "Analyze" =>
        \A i \in DOMAIN tStats.MonthlyData :
            tStats.MonthlyData[i].TotalUnresolved
                = UnresolvedAsOf(FinalInstant(tStats.MonthlyData[i].Month) - 1)

\* C12: for every month M of the series, the resolved count is the number
\* of input issues whose resolution timestamp lies from M's first instant
\* through M's final instant, so a resolution timestamp inside a series
\* month is counted in that month.
C12_ResolvedWithinMonth ==
    tOp = "Analyze" =>
        \A i \in DOMAIN tStats.MonthlyData :
            tStats.MonthlyData[i].TotalResolved
                = ResolvedWithin(tStats.MonthlyData[i].Month,
                                 FinalInstant(tStats.MonthlyData[i].Month))

\* the same count with the month closed at 23:59:59.000 of its last day (a
\* companion of C12_ResolvedWithinMonth: this is what Analyze yields)
ResolvedUpToLastWholeSecond ==
    tOp = "Analyze" =>
        \A i \in DOMAIN tStats.MonthlyData :
            tStats.MonthlyData[i].TotalResolved
                = ResolvedWithin(tStats.MonthlyData[i].Month,
                                 FinalInstant(tStats.MonthlyData[i].Month) - 1)

\* C13: Analyze files every issue under the calendar month that holds its
\* creation instant in UTC, whatever offset the timestamp carries: each
\* issue's UTC creation month is in the series, and a month's created count
\* is the number of issues whose creation instant lies in it.
C13_GroupedByUTCMonth ==
    tOp = "Analyze" =>
        /\ \A p \in DOMAIN tBugs :
              \E i \in DOMAIN tStats.MonthlyData :
                  tStats.MonthlyData[i].Month
                      = MonthStart(UTCMonth(tBugs[p].Created.instant))
        /\ \A i \in DOMAIN tStats.MonthlyData :
              tStats.MonthlyData[i].TotalCreated
                  = Cardinality({p \in DOMAIN tBugs :
                        UTCMonth(tBugs[p].Created.instant)
                            = UTCMonth(tStats.MonthlyData[i].Month)})

\* the same with every timestamp written in UTC (a companion of
\* C13_GroupedByUTCMonth)
GroupedByMonthWhenUTC ==
    (tOp = "Analyze" /\ \A p \in DOMAIN tBugs : tBugs[p].Created.zone = "UTC") =>
        /\ \A p \in DOMAIN tBugs :
              \E i \in DOMAIN tStats.MonthlyData :
                  tStats.MonthlyData[i].Month
                      = MonthStart(UTCMonth(tBugs[p].Created.instant))
        /\ \A i \in DOMAIN tStats.MonthlyData :
              tStats.MonthlyData[i].TotalCreated
                  = Cardinality({p \in DOMAIN tBugs :
                        UTCMonth(tBugs[p].Created.instant)
                            = UTCMonth(tStats.MonthlyData[i].Month)})


\* the months of a series, in series order
SeriesMonths(monthlyData) == [i \in DOMAIN monthlyData |-> monthlyData[i].Month]

\* two reorderings of a list that between them generate every reordering
RotateLeft(s) == IF s = <<>> THEN s ELSE Append(Tail(s), Head(s))
SwapFirstTwo(s) == IF Len(s) < 2 THEN s ELSE <<s[2], s[1]>> \o SubSeq(s, 3, Len(s))

\* C14: the series Analyze returns holds exactly the distinct creation
\* months of the input issues (the month each creation timestamp reads),
\* each once, in strictly increasing chronological order, and the input
\* order of the issues does not change which months it lists or their order.
C14_SeriesIsSortedDistinctMonths ==
    tOp = "Analyze" =>
        LET monthlyData == tStats.MonthlyData
        IN /\ {monthlyData[i].Month : i \in DOMAIN monthlyData}
                = {MonthKey(tBugs[p]) : p \in DOMAIN tBugs}
           /\ \A i, j \in DOMAIN monthlyData :
                 i < j => monthlyData[i].Month < monthlyData[j].Month
           /\ SeriesMonths(Analyze(RotateLeft(tBugs), tGoal, tNow).MonthlyData)
                = SeriesMonths(monthlyData)
           /\ SeriesMonths(Analyze(SwapFirstTwo(tBugs), tGoal, tNow).MonthlyData)
                = SeriesMonths(monthlyData)

\* three issues of two months, a later month's issue listed before an
\* earlier month's
C14_Witness ==
    /\ tOp = "Analyze"
    /\ Len(tBugs) = 3
    /\ Len(tStats.MonthlyData) = 2
    /\ MonthKey(tBugs[1]) > MonthKey(tBugs[2])


\* the created count of the entry before the i-th, 0 before the first
PreviousCreated(monthlyData, i) ==
    IF i = 1 THEN 0 ELSE monthlyData[i - 1].TotalCreated

C16_ChangePercent ==
    tOp = "Analyze" =>
        \A i \in DOMAIN tStats.MonthlyData :
            LET entry == tStats.MonthlyData[i]
                previous == PreviousCreated(tStats.MonthlyData, i)
            IN /\ entry.ChangePercent.den # 0
               /\ IF previous = 0
                  THEN entry.ChangePercent.num = 0
                  ELSE entry.ChangePercent.num * previous
                         = (entry.TotalCreated - previous) * 100
                              * entry.ChangePercent.den

\* a month with half as many issues created as the month before it: -50
C16_Witness ==
    /\ tOp = "Analyze"
    /\ Len(tStats.MonthlyData) = 2
    /\ tStats.MonthlyData[1].TotalCreated = 2
    /\ tStats.MonthlyData[2].TotalCreated = 1
    /\ tStats.MonthlyData[2].ChangePercent.num
          = -50 * tStats.MonthlyData[2].ChangePercent.den

AbsoluteValue(n) == IF n < 0 THEN -n ELSE n

\* C17: when the series has both the current month's entry and the entry of
\* the same month last year, GoalTarget is lastYear.created * (1 - goal/100)
\* rounded to the nearest integer (no integer is nearer), OnTrack says
\* whether current.created <= GoalTarget, and 100 issues with a goal of 20
\* give a target of 80.
C17_GoalTargetAndOnTrack ==
    /\ calculateGoalTarget(100, 20) = 80
    /\ (tOp = "Analyze" /\ tStats.CurrentMonth # 0 /\ tStats.LastYearSameMonth # 0) =>
          LET lastYear == tStats.MonthlyData[tStats.LastYearSameMonth].TotalCreated
              current == tStats.MonthlyData[tStats.CurrentMonth].TotalCreated
          IN /\ 2 * AbsoluteValue(100 * tStats.GoalTarget - lastYear * (100 - tGoal))
                   <= 100
             /\ tStats.OnTrack = (current <= tStats.GoalTarget)

\* two issues last year, a goal of 20 percent (1.6, target 2), and one issue
\* this month: on track
C17_Witness ==
    /\ tOp = "Analyze"
    /\ tGoal = 20
    /\ tStats.CurrentMonth # 0
    /\ tStats.LastYearSameMonth # 0
    /\ tStats.MonthlyData[tStats.LastYearSameMonth].TotalCreated = 2
    /\ tStats.GoalTarget = 2
    /\ tStats.OnTrack

\* the series has an entry for the month starting at monthStart
HasEntry(monthStart) ==
    \E i \in DOMAIN tStats.MonthlyData : tStats.MonthlyData[i].Month = monthStart

\* C18: CurrentMonth is the series entry of the current calendar month and
\* LastYearSameMonth the entry of the same month one year earlier, each
\* absent exactly when the series has no such entry; when either is absent
\* GoalTarget is 0 and OnTrack is false.
C18_CurrentAndLastYearEntries ==
    tOp = "Analyze" =>
        /\ IF HasEntry(MonthStart(tNow))
           THEN /\ tStats.CurrentMonth \in DOMAIN tStats.MonthlyData
                /\ tStats.MonthlyData[tStats.CurrentMonth].Month = MonthStart(tNow)
           ELSE tStats.CurrentMonth = 0
        /\ IF HasEntry(MonthStart(tNow - MonthsPerYear))
           THEN /\ tStats.LastYearSameMonth \in DOMAIN tStats.MonthlyData
                /\ tStats.MonthlyData[tStats.LastYearSameMonth].Month
                      = MonthStart(tNow - MonthsPerYear)
           ELSE tStats.LastYearSameMonth = 0
        /\ (tStats.CurrentMonth = 0 \/ tStats.LastYearSameMonth = 0) =>
              (tStats.GoalTarget = 0 /\ ~tStats.OnTrack)

\* issues were created this month and none in the same month last year
C18_Witness ==
    /\ tOp = "Analyze"
    /\ tStats.CurrentMonth # 0
    /\ tStats.LastYearSameMonth = 0
    /\ tStats.GoalTarget = 0
    /\ ~tStats.OnTrack

\* C19: Analyze given no issues returns no error, an empty series, no
\* CurrentMonth and no LastYearSameMonth, GoalTarget 0 and OnTrack false;
\* Evaluate given no issues returns a group with no buckets, whatever the
\* rules.
C19_EmptyInput ==
    (tOp = "Analyze" /\ tBugs = <<>>) =>
        /\ tErr = "nil"
        /\ tStats.MonthlyData = <<>>
        /\ tStats.CurrentMonth = 0
        /\ tStats.LastYearSameMonth = 0
        /\ tStats.GoalTarget = 0
        /\ ~tStats.OnTrack
        /\ \A cfg \in SeqsUpTo(ConfigRuleSet, MaxRules), clock \in ClockTimes :
              Evaluate(DomainRules(cfg), <<>>, clock) = <<>>

\* Analyze was called with an empty list
C19_Witness ==
    /\ tOp = "Analyze"
    /\ tBugs = <<>>
    /\ tErr = "nil"

\* the Evaluate half of C19 on the evaluator's own state (a companion of
\* C19_EmptyInput, checked under Spec)
EvaluateEmptyGivesNoBuckets ==
    (pc = "evaluated" /\ bugs = <<>>) => result = <<>>


(***************************************************************************)
(* Claims about the sprint aggregator, checked under SpecSprint            *)
(***************************************************************************)
\* the sprint ids the given issues carry, the empty id apart
GivenSprintIDs == {sIssues[p].SprintID : p \in DOMAIN sIssues} \ {""}

\* a sprint-name pattern is configured and does not compile
PatternInvalid == sPattern # <<>> /\ Compile(sPattern).err

\* C20: when the sprint-name regular expression is invalid,
\* ExtractAndFilterSprints and CalculateSprintStats both return, with no
\* filter applied: every sprint with a non-empty id is retained, once, with
\* all its issues, even if a name prefix is configured as well.
C20_InvalidPatternDisablesFilter ==
    /\ (sOp = "ExtractAndFilterSprints" /\ PatternInvalid) =>
          /\ {sOut[i] : i \in DOMAIN sOut} = GivenSprintIDs
          /\ Len(sOut) = Cardinality(GivenSprintIDs)
    /\ (sOp = "CalculateSprintStats" /\ PatternInvalid) =>
          /\ {sOut[i].SprintID : i \in DOMAIN sOut} = GivenSprintIDs
          /\ Len(sOut) = Cardinality(GivenSprintIDs)
          /\ \A i \in DOMAIN sOut :
                sOut[i].TotalCount
                    = Cardinality({p \in DOMAIN sIssues :
                                      sIssues[p].SprintID = sOut[i].SprintID})

\* ExtractAndFilterSprints returned two sprints under an invalid pattern and
\* a prefix that neither sprint's name begins with
C20_Witness ==
    /\ sOp = "ExtractAndFilterSprints"
    /\ PatternInvalid
    /\ sPrefix = <<"X">>
    /\ Len(sOut) = 2

\* CalculateSprintStats did the same (a companion of C20_Witness)
StatsUnderInvalidPatternWitness ==
    /\ sOp = "CalculateSprintStats"
    /\ PatternInvalid
    /\ sPrefix = <<"X">>
    /\ Len(sOut) = 2


\* s starts with the string prefix, character for character
HasPrefix(s, prefix) ==
    Len(prefix) <= Len(s) /\ SubSeq(s, 1, Len(prefix)) = prefix

\* the name ExtractAndFilterSprints knows a sprint by: the one on the last
\* given issue that carries the id
LastNameOf(id) ==
    LET carriers == {p \in DOMAIN sIssues : sIssues[p].SprintID = id}
    IN sIssues[CHOOSE p \in carriers : \A q \in carriers : q <= p].SprintName

\* a sprint-name pattern is configured and compiles
PatternValid == sPattern # <<>> /\ ~Compile(sPattern).err

\* C21: with a valid regular expression configured the prefix is ignored
\* (the outcome is one the same call without the prefix can give); with
\* only a prefix configured a sprint is kept iff its name starts with the
\* prefix string itself, its regex metacharacters taken literally.
C21_PatternOverridesPrefix ==
    /\ (sOp = "ExtractAndFilterSprints" /\ PatternValid) =>
          sOut \in ExtractAndFilterSprints(sIssues, <<>>, sPattern)
    /\ (sOp = "CalculateSprintStats" /\ PatternValid) =>
          sOut \in CalculateSprintStats(sIssues, <<>>, sPattern)
    /\ (sOp = "ExtractAndFilterSprints" /\ sPattern = <<>> /\ sPrefix # <<>>) =>
          {sOut[i] : i \in DOMAIN sOut}
              = {id \in GivenSprintIDs : HasPrefix(LastNameOf(id), sPrefix)}
    /\ (sOp = "CalculateSprintStats" /\ sPattern = <<>> /\ sPrefix # <<>>) =>
          /\ {sOut[i].SprintID : i \in DOMAIN sOut}
                = {sIssues[p].SprintID : p \in
                      {q \in DOMAIN sIssues :
                          /\ sIssues[q].SprintID # ""
                          /\ HasPrefix(sIssues[q].SprintName, sPrefix)}}
          /\ \A i \in DOMAIN sOut :
                sOut[i].TotalCount
                    = Cardinality({p \in DOMAIN sIssues :
                          /\ sIssues[p].SprintID = sOut[i].SprintID
                          /\ HasPrefix(sIssues[p].SprintName, sPrefix)})

\* only the prefix "T." is configured; sprint "T." is kept and sprint "TX",
\* which the unquoted prefix would match as a pattern, is dropped
C21_Witness ==
    /\ sOp = "ExtractAndFilterSprints"
    /\ sPattern = <<>>
    /\ sPrefix = <<"T", ".">>
    /\ Len(sOut) = 1
    /\ LastNameOf(sOut[1]) = <<"T", ".">>
    /\ \E id \in GivenSprintIDs : LastNameOf(id) = <<"T", "X">>

\* the pattern "X" and the prefix "T." are both configured; the one sprint
\* kept is "TX", which does not start with the prefix (a companion of
\* C21_Witness)
PatternBeatsPrefixWitness ==
    /\ sOp = "CalculateSprintStats"
    /\ sPattern = <<"X">>
    /\ sPrefix = <<"T", ".">>
    /\ Len(sOut) = 1
    /\ Cardinality(GivenSprintIDs) = 2


\* C22: ExtractSprintIDs returns exactly the distinct non-empty sprint ids
\* of the given issues, each once and never the empty id, and
\* ExtractAndFilterSprints with both filter strings empty returns the same
\* set.
C22_DistinctNonEmptySprintIDs ==
    (\/ sOp = "ExtractSprintIDs"
     \/ sOp = "ExtractAndFilterSprints" /\ sPrefix = <<>> /\ sPattern = <<>>) =>
        /\ {sOut[i] : i \in DOMAIN sOut} = GivenSprintIDs
        /\ \A i, j \in DOMAIN sOut : sOut[i] = sOut[j] => i = j
        /\ \A i \in DOMAIN sOut : sOut[i] # ""

\* ExtractSprintIDs was given two issues of one sprint, or one issue with a
\* sprint and one without, and returned the one id
C22_Witness ==
    /\ sOp = "ExtractSprintIDs"
    /\ Len(sIssues) = 2
    /\ Len(sOut) = 1


\* the name filter CalculateSprintStats has in force lets the name through
PassesStatsFilter(name) ==
    LET nameFilter == StatsNameFilter(sPrefix, sPattern)
    IN nameFilter.nil \/ MatchString(nameFilter, name)

\* the given issues CalculateSprintStats files under sprint id
IssuesOfSprint(id) ==
    {p \in DOMAIN sIssues :
        sIssues[p].SprintID = id /\ PassesStatsFilter(sIssues[p].SprintName)}

\* the story points of a set of given issues, summed
RECURSIVE PointsOf(_)
PointsOf(ps) ==
    IF ps = {} THEN 0
    ELSE LET p == CHOOSE q \in ps : TRUE
         IN sIssues[p].StoryPoints + PointsOf(ps \ {p})

\* the counts and point sums of an entry are those of its sprint's issues
EntryCountsRight(entry) ==
    LET mine == IssuesOfSprint(entry.SprintID)
        bugsOfMine == {p \in mine : sIssues[p].IssueType = "Bug"}
    IN /\ entry.BugCount = Cardinality(bugsOfMine)
       /\ entry.OtherCount = Cardinality(mine \ bugsOfMine)
       /\ entry.TotalCount = entry.BugCount + entry.OtherCount
       /\ entry.BugPercentage.den # 0
       /\ IF entry.TotalCount = 0
          THEN entry.BugPercentage.num = 0
          ELSE entry.BugPercentage.num * entry.TotalCount
                  = entry.BugCount * 100 * entry.BugPercentage.den
       /\ entry.BugStoryPoints = PointsOf(bugsOfMine)
       /\ entry.TotalStoryPoints = PointsOf(mine)
       /\ entry.PointsPercentage.den # 0

\* PointsPercentage is bug points / total points * 100
PointsPercentageIsRatio(entry) ==
    entry.PointsPercentage.num * entry.TotalStoryPoints
        = entry.BugStoryPoints * 100 * entry.PointsPercentage.den

\* C23 as stated: for every sprint in the CalculateSprintStats result the
\* counts and point sums are those of its issues, BugPercentage is
\* BugCount / TotalCount * 100, and PointsPercentage is
\* BugStoryPoints / TotalStoryPoints * 100, 0 when TotalStoryPoints is 0.
C23_SprintNumbersAsStated ==
    sOp = "CalculateSprintStats" =>
        \A i \in DOMAIN sOut :
            /\ EntryCountsRight(sOut[i])
            /\ IF sOut[i].TotalStoryPoints = 0
               THEN sOut[i].PointsPercentage.num = 0
               ELSE PointsPercentageIsRatio(sOut[i])

\* C23 amended: the same, with PointsPercentage the ratio when
\* TotalStoryPoints is positive and 0 when it is zero or negative.
C23_SprintNumbers ==
    sOp = "CalculateSprintStats" =>
        \A i \in DOMAIN sOut :
            /\ EntryCountsRight(sOut[i])
            /\ IF sOut[i].TotalStoryPoints > 0
               THEN PointsPercentageIsRatio(sOut[i])
               ELSE sOut[i].PointsPercentage.num = 0

\* a sprint of one bug and one other issue, a point each: 50 and 50
C23_Witness ==
    /\ sOp = "CalculateSprintStats"
    /\ Len(sOut) = 1
    /\ sOut[1].BugCount = 1
    /\ sOut[1].OtherCount = 1
    /\ sOut[1].BugStoryPoints = 1
    /\ sOut[1].TotalStoryPoints = 2
    /\ sOut[1].BugPercentage.num = 50 * sOut[1].BugPercentage.den
    /\ sOut[1].PointsPercentage.num = 50 * sOut[1].PointsPercentage.den

\* a sprint whose points sum to less than zero has PointsPercentage 0 (a
\* companion of C23_Witness)
NegativePointsWitness ==
    /\ sOp = "CalculateSprintStats"
    /\ Len(sOut) = 1
    /\ sOut[1].TotalStoryPoints < 0
    /\ sOut[1].BugStoryPoints < 0
    /\ sOut[1].PointsPercentage.num = 0


\* C24: CalculateSprintStats returns its entries in ascending order of
\* sprint name, and the outcome is determined by the issue list and the
\* filters: no other run on the same arguments returns another sequence,
\* also when two different sprint ids carry the same name.
C24_SortedAndDeterministic ==
    sOp = "CalculateSprintStats" =>
        /\ \A i, j \in DOMAIN sOut :
              i < j => ~StringLess(sOut[j].SprintName, sOut[i].SprintName)
        /\ \A other \in CalculateSprintStats(sIssues, sPrefix, sPattern) :
              other = sOut

\* the ordering half of C24 alone (a companion of
\* C24_SortedAndDeterministic), and determinism when no two entries share a
\* name
SortedByNameAndDeterministicWithoutTies ==
    sOp = "CalculateSprintStats" =>
        /\ \A i, j \in DOMAIN sOut :
              i < j => ~StringLess(sOut[j].SprintName, sOut[i].SprintName)
        /\ (\A i, j \in DOMAIN sOut :
               i # j => sOut[i].SprintName # sOut[j].SprintName) =>
              \A other \in CalculateSprintStats(sIssues, sPrefix, sPattern) :
                  other = sOut

\* two sprints of different names came out in name order although given in
\* the opposite order
SortedByNameWitness ==
    /\ sOp = "CalculateSprintStats"
    /\ Len(sOut) = 2
    /\ StringLess(sOut[1].SprintName, sOut[2].SprintName)
    /\ sIssues[1].SprintID = sOut[2].SprintID


\* the filter in force lets a sprint name through: the pattern when one is
\* configured (nothing is filtered when it does not compile), else the
\* prefix when one is configured, else everything
ActiveFilterKeeps(name) ==
    IF sPattern # <<>>
    THEN PatternInvalid \/ MatchString(Compile(sPattern).re, name)
    ELSE sPrefix = <<>> \/ HasPrefix(name, sPrefix)

\* the given issues that carry a sprint id and pass the filter in force
CountedIssues ==
    {p \in DOMAIN sIssues :
        sIssues[p].SprintID # "" /\ ActiveFilterKeeps(sIssues[p].SprintName)}

\* the TotalCount of the entries from the i-th on, summed
RECURSIVE TotalCountFrom(_)
TotalCountFrom(i) ==
    IF i > Len(sOut) THEN 0 ELSE sOut[i].TotalCount + TotalCountFrom(i + 1)

\* C29: CalculateSprintStats counts every given issue that has a sprint id
\* and passes the filter in force in the TotalCount of the one entry of
\* its sprint id and counts no other issue anywhere; a sprint id has at
\* most one entry and every entry has TotalCount >= 1.
C29_IssuesCountedOnce ==
    sOp = "CalculateSprintStats" =>
        /\ \A i \in DOMAIN sOut :
              /\ sOut[i].TotalCount
                    = Cardinality({p \in CountedIssues :
                                      sIssues[p].SprintID = sOut[i].SprintID})
              /\ sOut[i].TotalCount >= 1
        /\ \A i, j \in DOMAIN sOut :
              sOut[i].SprintID = sOut[j].SprintID => i = j
        /\ \A p \in CountedIssues :
              \E i \in DOMAIN sOut : sOut[i].SprintID = sIssues[p].SprintID
        /\ TotalCountFrom(1) = Cardinality(CountedIssues)

\* of two given issues with sprint ids one was filtered out by its name and
\* the other counted
C29_Witness ==
    /\ sOp = "CalculateSprintStats"
    /\ Len(sIssues) = 2
    /\ sIssues[1].SprintID # ""
    /\ sIssues[2].SprintID # ""
    /\ Cardinality(CountedIssues) = 1
    /\ Len(sOut) = 1
    /\ sOut[1].TotalCount = 1


(***************************************************************************)
(* A further claim about the bucket aggregator, checked under SpecBucket   *)
(***************************************************************************)
\* how many positions of the group hold bucket b
TimesIn(group, b) == Cardinality({i \in DOMAIN group : group[i] = b})

\* C28: Sort only permutes the group: after Sort the group holds the same
\* buckets as before, each as often as before and each with its name, its
\* severity and its issue sequence unchanged, and sorting it again changes
\* nothing.
C28_SortOnlyPermutes ==
    lastOp = "Sort" =>
        /\ Len(bg) = Len(prevBg)
        /\ \A i \in DOMAIN prevBg : TimesIn(bg, prevBg[i]) = TimesIn(prevBg, prevBg[i])
        /\ \A i \in DOMAIN bg : TimesIn(prevBg, bg[i]) = TimesIn(bg, bg[i])
        /\ Sort(bg) = bg

\* Sort moved the last of three buckets to the front
C28_Witness ==
    /\ lastOp = "Sort"
    /\ Len(bg) = 3
    /\ bg # prevBg
    /\ bg[1] = prevBg[3]


(***************************************************************************)
(* Further claims about the trend analyzer                                 *)
(***************************************************************************)
\* an instant on a whole second: every tick but the one past 23:59:59.000
WholeSecond(instant) == instant % TicksPerMonth # TicksPerMonth - 1

\* the given issues are well formed: timestamps are whole-second UTC
\* instants, a resolution timestamp goes with a resolution label and the
\* other way round, and no issue is resolved before it is created
WellFormedIssues ==
    \A p \in DOMAIN tBugs :
        /\ tBugs[p].Created.zone = "UTC"
        /\ WholeSecond(tBugs[p].Created.instant)
        /\ (tBugs[p].ResolutionDate # <<>>) <=> (tBugs[p].Resolution # "")
        /\ tBugs[p].ResolutionDate # <<>> =>
              /\ WholeSecond(tBugs[p].ResolutionDate[1])
              /\ tBugs[p].ResolutionDate[1] >= tBugs[p].Created.instant

\* the months of the series are consecutive calendar months
ConsecutiveMonths ==
    \A i \in DOMAIN tStats.MonthlyData :
        i > 1 => UTCMonth(tStats.MonthlyData[i].Month)
                    = UTCMonth(tStats.MonthlyData[i - 1].Month) + 1

\* every entry's backlog is the previous entry's plus created minus resolved
BacklogConserved ==
    \A i \in DOMAIN tStats.MonthlyData :
        tStats.MonthlyData[i].TotalUnresolved
            = (IF i = 1 THEN 0 ELSE tStats.MonthlyData[i - 1].TotalUnresolved)
                + tStats.MonthlyData[i].TotalCreated
                - tStats.MonthlyData[i].TotalResolved

\* C26: backlog conservation: when the given issues are well formed and the
\* series months are consecutive, every entry has unresolved = the previous
\* entry's unresolved + created - resolved, and the first entry has
\* unresolved = created - resolved.
C26_BacklogConservation ==
    (tOp = "Analyze" /\ WellFormedIssues /\ ConsecutiveMonths) => BacklogConserved

\* three well-formed issues of three consecutive months, one of them
\* resolved in a later month than it was created in
C26_Witness ==
    /\ tOp = "Analyze"
    /\ WellFormedIssues
    /\ ConsecutiveMonths
    /\ Len(tStats.MonthlyData) = 3
    /\ tStats.MonthlyData[1].TotalUnresolved = 1
    /\ tStats.MonthlyData[2].TotalUnresolved = 2
    /\ tStats.MonthlyData[3].TotalResolved = 1
    /\ tStats.MonthlyData[3].TotalUnresolved = 2

\* the priority counts of an entry, summed
RECURSIVE PrioritySum(_, _)
PrioritySum(byPriority, priorities) ==
    IF priorities = {} THEN 0
    ELSE LET pr == CHOOSE x \in priorities : TRUE
         IN byPriority[pr] + PrioritySum(byPriority, priorities \ {pr})

\* the created counts of the entries from the i-th on, summed
RECURSIVE CreatedFrom(_)
CreatedFrom(i) ==
    IF i > Len(tStats.MonthlyData) THEN 0
    ELSE tStats.MonthlyData[i].TotalCreated + CreatedFrom(i + 1)

\* C27: every given issue is counted in the created count of exactly one
\* series entry: the created counts sum to the number of given issues,
\* every entry has created >= 1, and within an entry the per-priority
\* counts sum to its created count.
C27_CreatedCountsPartitionInput ==
    tOp = "Analyze" =>
        /\ CreatedFrom(1) = Len(tBugs)
        /\ \A i \in DOMAIN tStats.MonthlyData :
              LET entry == tStats.MonthlyData[i]
              IN /\ entry.TotalCreated >= 1
                 /\ entry.TotalCreated
                       = Cardinality({p \in DOMAIN tBugs :
                                         MonthKey(tBugs[p]) = entry.Month})
                 /\ PrioritySum(entry.ByPriority, DOMAIN entry.ByPriority)
                       = entry.TotalCreated

\* three issues over two months, one month holding two issues of one
\* priority
C27_Witness ==
    /\ tOp = "Analyze"
    /\ Len(tBugs) = 3
    /\ Len(tStats.MonthlyData) = 2
    /\ \E i \in DOMAIN tStats.MonthlyData :
          \E pr \in DOMAIN tStats.MonthlyData[i].ByPriority :
              tStats.MonthlyData[i].ByPriority[pr] = 2

(***************************************************************************)
(* The check command's exit code                                           *)
(***************************************************************************)
\* the fetched issues that violate one of the configured rules
ViolatingIssues ==
    {p \in DOMAIN cRun.Bugs :
        \E i \in DOMAIN cRun.Cfg :
            Violates(ToDomainRule(cRun.Cfg[i]), cRun.Bugs[p], cNow)}

\* C25: the check command exits with code 0 when no SLA violation is found (no
\* issue was fetched, or Evaluate returned no bucket) and with code 1 when
\* Evaluate returned at least one bucket; every bucket Evaluate returned holds
\* at least one issue; so exit code 1 implies at least one violating issue.
C25_ExitCodeTellsViolation ==
    cPc = "exited" =>
        /\ (cRun.Err = "" /\ (Len(cRun.Bugs) = 0 \/ Len(cRun.Group) = 0))
              => cRun.Exit = 0
        /\ (cRun.Evaluated /\ Len(cRun.Group) > 0) => cRun.Exit = 1
        /\ \A i \in DOMAIN cRun.Group : Len(cRun.Group[i].Bugs) >= 1
        /\ cRun.Exit = 1 => ViolatingIssues # {}

\* the run ended with exit code 1 although nothing was fetched or evaluated
C25_ErrorExitWitness ==
    /\ cPc = "exited"
    /\ cRun.Exit = 1
    /\ cRun.Err # ""
    /\ ~cRun.Evaluated
    /\ ViolatingIssues = {}

\* In a run in which no call fails, the exit code is 1 exactly when a fetched
\* issue violates a configured rule, and 0 otherwise; every bucket Evaluate
\* returned holds at least one issue.
ExitCodeOfRunWithoutError ==
    (cPc = "exited" /\ cRun.Err = "") =>
        /\ cRun.Exit \in {0, 1}
        /\ cRun.Exit = 1 <=> ViolatingIssues # {}
        /\ cRun.Exit = 1 <=> (cRun.Evaluated /\ Len(cRun.Group) > 0)
        /\ \A i \in DOMAIN cRun.Group : Len(cRun.Group[i].Bugs) >= 1

\* a run without error fetched two issues, one violating and one not, and
\* ended with exit code 1
ExitCodeOfRunWithoutErrorWitness ==
    /\ cPc = "exited"
    /\ cRun.Err = ""
    /\ cRun.Exit = 1
    /\ Len(cRun.Bugs) = 2
    /\ Cardinality(ViolatingIssues) = 1

(***************************************************************************)
(* The paginated fetch                                                     *)
(***************************************************************************)
\* the issues of the first k pages received, mapped, in page order
RECURSIVE PagesConcatenated(_)
PagesConcatenated(k) ==
    IF k = 0 THEN <<>>
    ELSE PagesConcatenated(k - 1)
            \o [i \in DOMAIN fPages[k].Issues |-> [Key |-> fPages[k].Issues[i]]]

\* C30: a paginated fetch requests the pages one after another, passing each
\* page's nextPageToken to the next request (the first request carries none);
\* it returns the issues of all pages concatenated in page order; it stops
\* exactly at the first page whose nextPageToken is empty; if a page request
\* fails it returns an error and no issue at all.
C30_PagesFetchedInOrder ==
    /\ \A k \in DOMAIN fSent :
          /\ k - 1 <= Len(fPages)
          /\ fSent[k] = IF k = 1 THEN "" ELSE fPages[k - 1].NextPageToken
    /\ \A k \in DOMAIN fPages :
          k < Len(fPages) => fPages[k].NextPageToken # ""
    /\ fPc = "running" =>
          /\ Len(fSent) = Len(fPages)
          /\ \A k \in DOMAIN fPages : fPages[k].NextPageToken # ""
    /\ (fPc = "returned" /\ ~fErr) =>
          /\ fResult = PagesConcatenated(Len(fPages))
          /\ Len(fSent) = Len(fPages)
          /\ fPages # <<>> => fPages[Len(fPages)].NextPageToken = ""
    /\ (fPc = "returned" /\ fErr) => fResult = <<>>

\* three pages were fetched, the first two holding issues and different
\* tokens, and the call returned the issues of all three
C30_Witness ==
    /\ fPc = "returned"
    /\ ~fErr
    /\ Len(fPages) = 3
    /\ fPages[1].Issues # <<>>
    /\ fPages[2].Issues # <<>>
    /\ fPages[1].NextPageToken # fPages[2].NextPageToken
    /\ Len(fResult) = Len(fPages[1].Issues) + Len(fPages[2].Issues)
                        + Len(fPages[3].Issues)

\* the second request failed after a first page holding issues, and the call
\* returned an error and nothing else
FetchFailureWitness ==
    /\ fPc = "returned"
    /\ fErr
    /\ Len(fSent) = 2
    /\ Len(fPages) = 1
    /\ fPages[1].Issues # <<>>
    /\ fAll # <<>>
    /\ fResult = <<>>

\* FetchIssuesBySprints given no sprint id returned without any request
NoSprintNoRequestWitness ==
    /\ fPc = "returned"
    /\ fFunc = "FetchIssuesBySprints"
    /\ ~fErr
    /\ fSent = <<>>
    /\ fResult = <<>>

====
